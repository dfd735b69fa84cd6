------------------------------ MODULE MCIngest ------------------------------
EXTENDS Ingest

\* A record or a stream of one batch, three rows in slices of two, a stream
\* with an empty batch between two others, and one of no batches.
Given == {<<0>>, <<3>>, <<1, 1, 2>>, <<>>}
=============================================================================
