--------------------------- MODULE MCRecordReader ---------------------------
EXTENDS RecordReader
=============================================================================
