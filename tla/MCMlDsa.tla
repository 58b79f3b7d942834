------------------------------ MODULE MCMlDsa ------------------------------
EXTENDS MlDsa

(* Vectors that are zero but in their first row. *)
FirstRow(dim, row) == [i \in 1..dim |-> [n \in 1..N |-> IF i > 1 THEN 0 ELSE row[n]]]

(* With the first matrix every check of the loop but that of c * t0 rejects *)
(* some mask by itself, and the hints of the signatures have none, one and  *)
(* two ones, in one row and in both; with the second one c * t0 is too long. *)
MCMatrices == {[i \in 1..Rows |-> [j \in 1..Columns |->
                   IF j > 1 THEN 0 ELSE IF i = 1 THEN a ELSE a + 1]] : a \in {15503, -4097}}

MCSecrets == {[s1 |-> FirstRow(Columns, <<2, 1, 1>>), s2 |-> FirstRow(Rows, <<-2, -2, -2>>)]}

MCMasks == {FirstRow(Columns, <<x, y, 0>>) : x \in {-131071, 72185, 58240},
                                             y \in {30167, 113586}}

MCOid == <<6>>
MCContexts == {<<>>, <<6>>, <<6, 7>>}
MCMessages == {<<7>>, <<6, 7>>}
MCPreHashes == [m \in Messages |-> <<6 + Len(m)>>]
=============================================================================
