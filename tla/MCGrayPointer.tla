---- MODULE MCGrayPointer ----
EXTENDS GrayPointer
==============================
