----------------------------- MODULE MCTlReader -----------------------------
EXTENDS TlReader, TlSchema

AllReaders == DOMAIN ReaderTable
=============================================================================
