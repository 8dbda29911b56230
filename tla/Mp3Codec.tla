------------------------------ MODULE Mp3Codec ------------------------------
(***************************************************************************)
(* The MP3 codec layer (MP3_HW/src/mp3_codec.c) between a program that     *)
(* holds one buffer of samples and one encoded stream, and the two         *)
(* libraries it stands on: minimp3, which decodes in one call, and LAME,   *)
(* which keeps frames back and gives them out when it likes.               *)
(*                                                                         *)
(* A sample is its number.  A frame is what LAME is given for the left and *)
(* the right channel; its encoded form takes as much room as the frame has *)
(* samples.  Rates, bitrates and quality are left out.                     *)
(***************************************************************************)
EXTENDS Integers, Sequences

CONSTANTS CHUNK,          \* frames in one call of LAME (1152)
          SPARE,          \* room for the stream beyond half as much again (7200)
          MaxSamples,     \* samples in the longest stream
          MaxKept,        \* buffers that failed decodes may leave behind
          NULL

ASSUME Mp3CodecAssumption ==
  /\ CHUNK \in Nat \ {0} /\ SPARE \in Nat \ {0} /\ MaxSamples \in Nat /\ MaxKept \in Nat
  /\ NULL # "live" /\ NULL \notin Seq(Nat \X Nat)

VARIABLES heap,           \* how often a block of each kind is allocated
          pcm,            \* the caller's samples: [samples, count, channels]
          info,           \* what minimp3 has decoded
          out,            \* the caller's stream: [data, size]
          mp3buf,         \* position -> encoded frame
          lame,           \* frames given to LAME, and how many it has given out
          offset,         \* frames encoded
          total_written,  \* room used in mp3buf
          pc,             \* where the codec is, "caller" between calls
          kept            \* buffers that failed decodes have left behind

decoder == <<info, kept>>
encoder == <<mp3buf, lame, offset, total_written>>
vars == <<heap, pcm, decoder, out, encoder, pc>>

Kinds == {"info", "samples", "lame", "mp3buf"}

alloc(kind) == heap' = [heap EXCEPT ![kind] = @ + 1]
free(kinds) == heap' = [k \in Kinds |-> IF k \in kinds THEN heap[k] - 1 ELSE heap[k]]

NoPcm  == [samples |-> NULL, count |-> 0, channels |-> 0]
NoOut  == [data |-> NULL, size |-> 0]
NoLame == [fed |-> << >>, given |-> 0]

Init ==
  /\ heap = [k \in Kinds |-> 0]
  /\ pcm = NoPcm /\ info = NoPcm /\ out = NoOut
  /\ mp3buf = << >> /\ lame = NoLame /\ offset = 0 /\ total_written = 0
  /\ pc = "caller" /\ kept = 0

-----------------------------------------------------------------------------
(* mp3_codec_decode.  The caller gives it a buffer that owns no samples.   *)

\* minimp3 has failed, or it has found no frame; it may have a buffer all the same.
LoadFails ==
  /\ pc = "caller" /\ pcm.samples = NULL
  /\ pcm' = NoPcm
  /\ \/ UNCHANGED <<heap, kept>>
     \/ kept < MaxKept /\ alloc("info") /\ kept' = kept + 1
  /\ UNCHANGED <<info, out, encoder, pc>>

Load(count, channels) ==
  /\ pc = "caller" /\ pcm.samples = NULL
  /\ pcm' = NoPcm
  /\ info' = [samples |-> "live", count |-> count, channels |-> channels]
  /\ alloc("info")
  /\ pc' = "decode"
  /\ UNCHANGED <<kept, out, encoder>>

DecodeReturns == pc' = "caller" /\ info' = NoPcm /\ UNCHANGED <<kept, out, encoder>>

\* There is no sample, or no memory for a copy of them.
DecodeGivesUp ==
  /\ pc = "decode"
  /\ free({"info"})
  /\ DecodeReturns
  /\ UNCHANGED pcm

\* The samples are copied, and minimp3's buffer is freed.
DecodeCopies ==
  /\ pc = "decode" /\ info.count > 0
  /\ heap' = [heap EXCEPT !["info"] = @ - 1, !["samples"] = @ + 1]
  /\ pcm' = info
  /\ DecodeReturns

\* Mutant: the pointer is left as it was.
FreesOnly ==
  /\ pc = "caller"
  /\ IF pcm.samples = NULL THEN UNCHANGED heap ELSE free({"samples"})
  /\ pcm' = [pcm EXCEPT !.count = 0]
  /\ UNCHANGED <<decoder, out, encoder, pc>>

\* free(NULL) does nothing, so it may be called again, or after a decode that failed.
mp3_codec_free_pcm ==
  /\ pc = "caller"
  /\ IF pcm.samples = NULL THEN UNCHANGED heap ELSE free({"samples"})
  /\ pcm' = [pcm EXCEPT !.samples = NULL, !.count = 0]
  /\ UNCHANGED <<decoder, out, encoder, pc>>

\* The program between the calls: it shortens what it plays, and it frees a stream.
Trim(count) ==
  /\ pc = "caller" /\ count < pcm.count
  /\ pcm' = [pcm EXCEPT !.count = count]
  /\ UNCHANGED <<heap, decoder, out, encoder, pc>>

FreeStream ==
  /\ pc = "caller" /\ out # NoOut
  /\ out' = NoOut /\ free({"mp3buf"})
  /\ UNCHANGED <<pcm, decoder, encoder, pc>>

-----------------------------------------------------------------------------
(* mp3_codec_encode.  Its early returns change nothing.                    *)

frame_samples == pcm.count \div pcm.channels
mp3_capacity  == pcm.count + (pcm.count \div 2) + SPARE
Room          == mp3_capacity - total_written

EncodeBegins ==
  /\ pc = "caller" /\ out = NoOut
  /\ pcm.samples # NULL /\ pcm.count > 0
  /\ alloc("lame")
  /\ lame' = NoLame /\ mp3buf' = << >> /\ offset' = 0 /\ total_written' = 0
  /\ pc' = "params"
  /\ UNCHANGED <<pcm, decoder, out>>

\* The stack frame of encode is gone.
EncodeReturns ==
  /\ pc' = "caller"
  /\ lame' = NoLame /\ mp3buf' = << >> /\ offset' = 0 /\ total_written' = 0
  /\ UNCHANGED <<pcm, decoder>>

\* LAME refuses the parameters, or there is no memory for the stream.
ParamsFail ==
  /\ pc = "params"
  /\ free({"lame"})
  /\ EncodeReturns
  /\ UNCHANGED out

ParamsAccepted ==
  /\ pc = "params"
  /\ alloc("mp3buf")
  /\ pc' = "encode"
  /\ UNCHANGED <<pcm, decoder, out, encoder>>

chunk == IF frame_samples - offset > CHUNK THEN CHUNK ELSE frame_samples - offset

\* Mutant: the second channel is not counted in where the chunk begins.
ChunkAtOffset ==
  [i \in 1 .. chunk |->
     LET f == offset + i - 1
     IN  IF pcm.channels = 1 THEN <<f, f>>
         ELSE <<offset + 2 * (i - 1), offset + 2 * (i - 1) + 1>>]

\* What the pointers handed to LAME show it: one channel twice, or two interleaved.
Chunk ==
  [i \in 1 .. chunk |->
     LET f == offset + i - 1
     IN  IF pcm.channels = 1 THEN <<f, f>> ELSE <<2 * f, 2 * f + 1>>]

\* LAME writes the next n frames that it has behind what has been written.
Emits(fed, n) ==
  /\ n * pcm.channels <= Room
  /\ mp3buf' = SubSeq(mp3buf, 1, total_written \div pcm.channels)
               \o SubSeq(fed, lame.given + 1, lame.given + n)
  /\ lame' = [fed |-> fed, given |-> lame.given + n]
  /\ total_written' = total_written + n * pcm.channels

\* One turn of the loop: LAME takes the chunk and gives out some of what it has.
EncodeChunk(n) ==
  /\ pc = "encode" /\ offset < frame_samples
  /\ n <= Len(lame.fed) + chunk - lame.given
  /\ Emits(lame.fed \o Chunk, n)
  /\ offset' = offset + chunk
  /\ UNCHANGED <<heap, pcm, decoder, out, pc>>

\* Mutant: the encoder is not closed.
FailsOpen ==
  /\ pc = "encode" /\ offset < frame_samples
  /\ free({"mp3buf"})
  /\ EncodeReturns
  /\ UNCHANGED out

EncodeFails ==
  /\ pc = "encode" /\ offset < frame_samples
  /\ free({"mp3buf", "lame"})
  /\ EncodeReturns
  /\ UNCHANGED out

\* LAME gives out all it has kept back, and is closed.
lame_encode_flush ==
  /\ pc = "encode" /\ offset >= frame_samples
  /\ \/ /\ Emits(lame.fed, Len(lame.fed) - lame.given)
        /\ pc' = "flushed"
     \/ pc' = "flush failed" /\ UNCHANGED <<mp3buf, lame, total_written>>
  /\ free({"lame"})
  /\ UNCHANGED <<pcm, decoder, out, offset>>

FlushFailed ==
  /\ pc = "flush failed"
  /\ free({"mp3buf"})
  /\ EncodeReturns
  /\ UNCHANGED out

EncodeDone ==
  /\ pc = "flushed"
  /\ out' = [data |-> mp3buf, size |-> total_written]
  /\ EncodeReturns
  /\ UNCHANGED heap

Next ==
  \/ LoadFails \/ DecodeGivesUp \/ DecodeCopies
  \/ \E count \in 0 .. MaxSamples, channels \in {1, 2} : Load(count, channels)
  \/ mp3_codec_free_pcm \/ FreeStream
  \/ \E count \in 0 .. MaxSamples : Trim(count)
  \/ EncodeBegins \/ ParamsFail \/ ParamsAccepted
  \/ \E n \in 0 .. MaxSamples : EncodeChunk(n)
  \/ EncodeFails \/ lame_encode_flush \/ FlushFailed \/ EncodeDone

Spec == Init /\ [][Next]_vars

-----------------------------------------------------------------------------
(* Between two calls every block is the caller's, and it knows of it: what *)
(* each way out of decode and encode has allocated it has freed, once,     *)
(* except the buffer that minimp3 keeps when it fails midway; and nothing  *)
(* is freed twice, in whatever order free_pcm and encode are called, and   *)
(* decode with no samples in the buffer, which it clears without freeing   *)
(* them (mp3_codec.c:24): a pointer that is not NULL is to a block that is *)
(* live (mp3_codec.c:30-55, 57-65, 69-74, 90-152).                         *)
NothingLost ==
  /\ pc = "caller" =>
       heap = [k \in Kinds |-> CASE k = "samples" -> IF pcm.samples = NULL THEN 0 ELSE 1
                                 [] k = "mp3buf"  -> IF out = NoOut THEN 0 ELSE 1
                                 [] k = "info"    -> kept
                                 [] k = "lame"    -> 0]
  /\ pcm.samples # NULL => heap["samples"] = 1
  /\ pc \in {"encode", "flushed"} => heap["samples"] = 1 /\ heap["mp3buf"] = 1

\* A stream that is handed out holds every frame of the samples once, in order,
\* whatever LAME kept back, and its size is that of the frames: the chunks meet, the
\* last is the short one, and the flush goes behind them (mp3_codec.c:104-152).
StreamIsWhole ==
  [][out' # out /\ out' # NoOut =>
       LET n == pcm.count \div pcm.channels
       IN  /\ out'.size = n * pcm.channels
           /\ out'.data = [i \in 1 .. n |-> IF pcm.channels = 1 THEN <<i - 1, i - 1>>
                                            ELSE <<2 * i - 2, 2 * i - 1>>]]_vars
=============================================================================
