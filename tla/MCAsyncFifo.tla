---- MODULE MCAsyncFifo ----
EXTENDS AsyncFifo
============================
