--------------------------- MODULE EvidenceCodec ---------------------------
(***************************************************************************)
(* Compression of a closed audit directory (evidence_codec.py).            *)
(* compress_evidence writes and verifies one gzip container per file while *)
(* the plain files are in place, then the receipt, then removes the plain  *)
(* files; readers (EvidenceStore) go by the receipt.                       *)
(***************************************************************************)
EXTENDS Integers, FiniteSets

CONSTANT Names     \* the JSONL files of the audit directory

VARIABLE codec     \* step, the copies of each file on disk, and the receipt

Forms == {"plain", "gz"}
CodecInit == codec = [step |-> "idle", copies |-> [n \in Names |-> {"plain"}], receipt |-> FALSE]

Stored(form) == {n \in Names : form \in codec.copies[n]}
CodecStep(s) == codec' = [codec EXCEPT !.step = s]

(* Refused: already compressed, or containers in the way. *)
CodecRefused == codec.receipt \/ Stored("gz") # {}

CompressBegin ==
    /\ codec.step = "idle"
    /\ CodecStep(IF CodecRefused THEN "raised" ELSE "packing")

PackFileInPlace ==
    /\ codec.step = "packing"
    /\ \E n \in Stored("plain") \ Stored("gz") : codec' = [codec EXCEPT !.copies[n] = {"gz"}]

(* One container: packed, fsynced, read back, renamed into place. *)
PackFile ==
    /\ codec.step = "packing"
    /\ \E n \in Stored("plain") \ Stored("gz") :
          codec' = [codec EXCEPT !.copies[n] = @ \cup {"gz"}]

PackDone ==
    /\ codec.step = "packing" /\ Stored("gz") = Names
    /\ CodecStep("receipt")

(* A container cannot be written or does not reproduce its file: every     *)
(* container goes.                                                         *)
RollBack == codec' = [codec EXCEPT !.step = "raised", !.copies = [n \in Names |-> @[n] \ {"gz"}]]
PackFails == codec.step = "packing" /\ RollBack

(* _write_receipt.  When it fails nothing is rolled back. *)
WriteReceipt ==
    /\ codec.step = "receipt"
    /\ codec' = [codec EXCEPT !.step = "reclaiming", !.receipt = TRUE]
ReceiptFails == codec.step = "receipt" /\ CodecStep("raised")

ReclaimFile ==
    /\ codec.step = "reclaiming"
    /\ \E n \in Stored("plain") : codec' = [codec EXCEPT !.copies[n] = @ \ {"plain"}]
ReclaimDone == codec.step = "reclaiming" /\ Stored("plain") = {} /\ CodecStep("done")
ReclaimFails == codec.step = "reclaiming" /\ CodecStep("raised")

Compress == CompressBegin \/ PackFile \/ PackDone \/ WriteReceipt \/ ReclaimFile \/ ReclaimDone
CompressFails == PackFails \/ ReceiptFails \/ ReclaimFails
Compressed == codec.step \in {"done", "raised"}

(* EvidenceStore: without a receipt no container may be there; with one, a *)
(* file is read from its container, or from the plain file beside it.      *)
Readable ==
    IF codec.receipt THEN \A n \in Names : codec.copies[n] # {}
    ELSE Stored("gz") = {} /\ Stored("plain") = Names

(* However an attempt ends, every file is still there in some form that    *)
(* was verified to hold its bytes, and once the receipt is written nothing *)
(* is left that a reader refuses.                                          *)
AuditKept ==
    /\ \A n \in Names : codec.copies[n] # {}
    /\ codec.receipt => Stored("gz") = Names /\ Readable
=============================================================================
