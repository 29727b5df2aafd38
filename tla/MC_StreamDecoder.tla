--------------------------- MODULE MC_StreamDecoder ---------------------------
(***************************************************************************)
(* A TLC instance of StreamDecoder: texts that look like the beginning of  *)
(* the ACK, frames whose payload holds SYNC, and frames cut, corrupted or  *)
(* of a kind nobody knows.                                                 *)
(***************************************************************************)
EXTENDS StreamDecoder

Letter == <<104>>
MC_Texts == {Letter, <<165>>, SubSeq(Ack, 1, 5)}

Output == [kind |-> 2, channel |-> 1, payload |-> <<104>>]
Synced == [kind |-> 2, channel |-> 0, payload |-> <<165, 90, 165>>]
MC_FramesSent == {Output, Synced}

(* In turn: the last byte missing, half a SYNC, a wrong checksum, an       *)
(* unknown kind, another version, and a header that claims 2304 bytes.     *)
MC_Damages ==
  {Front(Encode(Output)),
   <<165>>,
   [Encode(Output) EXCEPT ![9] = 0],
   Encode([Output EXCEPT !.kind = 200]),
   [Encode(Output) EXCEPT ![3] = 2],
   <<165, 90, 1, 2, 0, 0, 9>>}
=============================================================================
