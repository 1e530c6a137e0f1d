---------------------------- MODULE MCRdEncoding ----------------------------
(* Integers of five bits in groups of two, so that, as with 64 bits in      *)
(* groups of seven, the last byte of the longest has one bit of the value.  *)
EXTENDS RdEncoding
MCSigned == -16..15
MCHexBytes == {0, 15, 240, 255}
=============================================================================
