---------------------------------- MODULE XLog ----------------------------------
(***************************************************************************)
(* The WAL address arithmetic of internal/core/xlog/xlog_internal.go.      *)
(*                                                                         *)
(* An LSN is a byte position in the WAL, a segment number (segno) the      *)
(* number of the walSegSize-byte file that holds it.  ScanWalSegSize only  *)
(* admits powers of two, so the code's bit mask is the remainder.          *)
(***************************************************************************)
EXTENDS Integers

\* The segment that holds the byte at position xlrp.
XLByteToSeg(xlrp, walSegSize) == xlrp \div walSegSize

\* The offset of a position within its segment.
XLogSegmentOffset(xlogptr, walSegSize) == xlogptr % walSegSize

\* The position of the first byte of a segment.
XLogSegNoToRecPtr(segno, walSegSize) == segno * walSegSize
=================================================================================
