------------------------------ MODULE MCWriterTx ------------------------------
(* WriterTx with a few batches and two retries; see MCWriterTx.cfg. *)
EXTENDS WriterTx
=============================================================================
