---------------------------- MODULE CodecProofs ----------------------------
(***************************************************************************)
(* Proofs about the MP3 codec layer, for every size of a chunk, of the     *)
(* spare room and of a stream.                                             *)
(***************************************************************************)
EXTENDS Mp3Codec, SequenceTheorems, TLAPS

-----------------------------------------------------------------------------
(* Frames.                                                                 *)

\* The i-th frame of a stream of c channels, and the first k of them.
Frame(c, i) == IF c = 1 THEN <<i - 1, i - 1>> ELSE <<2 * i - 2, 2 * i - 1>>

Frames(c, k) == [i \in 1 .. k |-> Frame(c, i)]

LEMMA FramesAre ==
  ASSUME NEW c, NEW k \in Nat
  PROVE  /\ Frames(c, k) \in Seq(Nat \X Nat)
         /\ Len(Frames(c, k)) = k
         /\ \A i \in 1 .. k : Frames(c, k)[i] = Frame(c, i)
<1>1. \A i \in 1 .. k : Frame(c, i) \in Nat \X Nat
  BY DEF Frame
<1>2. Frames(c, k) \in [1 .. k -> Nat \X Nat]
  BY <1>1 DEF Frames
<1>3. \A i \in 1 .. k : Frames(c, k)[i] = Frame(c, i)
  BY DEF Frames
<1> HIDE DEF Frames
<1>4. Frames(c, k) \in Seq(Nat \X Nat) /\ Len(Frames(c, k)) = k
  BY <1>2, SeqDef, LenProperties
<1> QED
  BY <1>3, <1>4

\* Some frames followed by the next ones.
LEMMA FramesJoin ==
  ASSUME NEW c, NEW k \in Nat, NEW m \in Nat, NEW s \in Seq(Nat \X Nat), Len(s) = m,
         \A i \in 1 .. m : s[i] = Frame(c, k + i)
  PROVE  Frames(c, k) \o s = Frames(c, k + m)
<1>1. /\ Frames(c, k) \in Seq(Nat \X Nat) /\ Len(Frames(c, k)) = k
      /\ \A i \in 1 .. k : Frames(c, k)[i] = Frame(c, i)
  BY FramesAre
<1>2. /\ Frames(c, k + m) \in Seq(Nat \X Nat) /\ Len(Frames(c, k + m)) = k + m
      /\ \A i \in 1 .. k + m : Frames(c, k + m)[i] = Frame(c, i)
  BY FramesAre
<1> DEFINE f == Frames(c, k)
           t == f \o s
           u == Frames(c, k + m)
<1>a. /\ f \in Seq(Nat \X Nat) /\ Len(f) = k
      /\ \A i \in 1 .. k : f[i] = Frame(c, i)
  BY <1>1
<1>b. /\ u \in Seq(Nat \X Nat) /\ Len(u) = k + m
      /\ \A i \in 1 .. k + m : u[i] = Frame(c, i)
  BY <1>2
<1> HIDE DEF f, u
<1>3. /\ t \in Seq(Nat \X Nat) /\ Len(t) = Len(f) + Len(s)
      /\ \A i \in 1 .. Len(f) + Len(s) :
           t[i] = IF i <= Len(f) THEN f[i] ELSE s[i - Len(f)]
  BY <1>a, ConcatProperties
<1> HIDE DEF t
<1>c. Len(t) = k + m /\ \A i \in 1 .. k + m : t[i] = IF i <= k THEN f[i] ELSE s[i - k]
  BY <1>3, <1>a
<1>4. ASSUME NEW i \in 1 .. k + m
      PROVE  t[i] = u[i]
  <2>1. CASE i <= k
    <3>1. i \in 1 .. k
      BY <2>1
    <3> QED
      BY <1>a, <1>b, <1>c, <2>1, <3>1
  <2>2. CASE ~ (i <= k)
    <3>1. i - k \in 1 .. m /\ k + (i - k) = i
      BY <2>2
    <3>2. s[i - k] = Frame(c, i)
      BY <3>1
    <3> QED
      BY <1>b, <1>c, <2>2, <3>2
  <2> QED
    BY <2>1, <2>2
<1>5. t = u
  <2>1. Len(t) = Len(u) /\ \A i \in 1 .. Len(t) : t[i] = u[i]
    BY <1>b, <1>c, <1>4
  <2> QED
    BY <1>3, <1>b, <2>1, SeqEqual
<1> QED
  BY <1>5 DEF t, u, f

\* The next frames, as one function.
LEMMA FramesFed ==
  ASSUME NEW c \in {1, 2}, NEW k \in Nat, NEW m \in Nat
  PROVE  Frames(c, k) \o [i \in 1 .. m |-> Frame(c, k + i)] = Frames(c, k + m)
<1> DEFINE s == [i \in 1 .. m |-> Frame(c, k + i)]
<1>1. s \in [1 .. m -> Nat \X Nat] /\ \A i \in 1 .. m : s[i] = Frame(c, k + i)
  BY DEF Frame
<1> HIDE DEF s
<1>2. s \in Seq(Nat \X Nat) /\ Len(s) = m
  BY <1>1, SeqDef, LenProperties
<1>3. Frames(c, k) \o s = Frames(c, k + m)
  BY <1>1, <1>2, FramesJoin
<1> QED
  BY <1>3 DEF s

\* The frames behind the first g.
LEMMA FramesBetween ==
  ASSUME NEW c, NEW k \in Nat, NEW g \in Nat, NEW m \in Nat, g + m <= k
  PROVE  LET s == SubSeq(Frames(c, k), g + 1, g + m)
         IN  /\ s \in Seq(Nat \X Nat) /\ Len(s) = m
             /\ \A i \in 1 .. m : s[i] = Frame(c, g + i)
<1> DEFINE s == SubSeq(Frames(c, k), g + 1, g + m)
<1>1. /\ Frames(c, k) \in Seq(Nat \X Nat) /\ Len(Frames(c, k)) = k
      /\ \A i \in 1 .. k : Frames(c, k)[i] = Frame(c, i)
  BY FramesAre
<1>2. g + 1 \in 1 .. k + 1 /\ g + m \in g .. k
  OBVIOUS
<1>3. /\ s \in Seq(Nat \X Nat)
      /\ Len(s) = m
      /\ \A i \in 1 .. m : s[i] = Frames(c, k)[g + i]
  <2>1. \A i \in g + 1 .. g + m : Frames(c, k)[i] \in Nat \X Nat
    BY <1>1, ElementOfSeq
  <2>2. /\ s \in Seq(Nat \X Nat)
        /\ Len(s) = IF g + 1 <= g + m THEN (g + m) - (g + 1) + 1 ELSE 0
        /\ \A i \in 1 .. (g + m) - (g + 1) + 1 : s[i] = Frames(c, k)[(g + 1) + i - 1]
    BY <2>1, SubSeqProperties
  <2> HIDE DEF s
  <2>3. \A i \in 1 .. m : s[i] = Frames(c, k)[g + i]
    <3> TAKE i \in 1 .. m
    <3>1. i \in 1 .. (g + m) - (g + 1) + 1 /\ (g + 1) + i - 1 = g + i
      OBVIOUS
    <3> QED
      BY <2>2, <3>1
  <2> QED
    BY <2>2, <2>3
<1> HIDE DEF s
<1>4. \A i \in 1 .. m : g + i \in 1 .. k
  OBVIOUS
<1>5. s \in Seq(Nat \X Nat) /\ Len(s) = m /\ \A i \in 1 .. m : s[i] = Frame(c, g + i)
  BY <1>1, <1>3, <1>4
<1> QED
  BY <1>5 DEF s

\* What LAME gives out next goes behind what it has given out before.
LEMMA EmittedFrames ==
  ASSUME NEW c, NEW g \in Nat, NEW k \in Nat, NEW n \in Nat, g + n <= k
  PROVE  SubSeq(Frames(c, g), 1, g) \o SubSeq(Frames(c, k), g + 1, g + n) = Frames(c, g + n)
<1> DEFINE p == SubSeq(Frames(c, g), 1, g)
           q == SubSeq(Frames(c, k), g + 1, g + n)
           f == Frames(c, g)
<1>1. q \in Seq(Nat \X Nat) /\ Len(q) = n /\ \A i \in 1 .. n : q[i] = Frame(c, g + i)
  BY FramesBetween
<1>2. /\ f \in Seq(Nat \X Nat) /\ Len(f) = g
      /\ \A i \in 1 .. g : f[i] = Frame(c, i)
  BY FramesAre
<1>3. LET s == SubSeq(Frames(c, g), 0 + 1, 0 + g)
      IN  /\ s \in Seq(Nat \X Nat) /\ Len(s) = g
          /\ \A i \in 1 .. g : s[i] = Frame(c, 0 + i)
  <2>1. 0 \in Nat /\ 0 + g <= g
    OBVIOUS
  <2> QED
    BY <2>1, FramesBetween
<1>4. 0 + 1 = 1 /\ 0 + g = g /\ \A i \in 1 .. g : 0 + i = i
  OBVIOUS
<1>5. p \in Seq(Nat \X Nat) /\ Len(p) = g /\ \A i \in 1 .. g : p[i] = Frame(c, i)
  BY <1>3, <1>4
<1> HIDE DEF p, q, f
<1>6. p = f
  <2>1. Len(p) = Len(f) /\ \A i \in 1 .. Len(p) : p[i] = f[i]
    BY <1>2, <1>5
  <2> QED
    BY <1>2, <1>5, <2>1, SeqEqual
<1>7. Frames(c, g) \o q = Frames(c, g + n)
  BY <1>1, FramesJoin
<1> QED
  BY <1>6, <1>7 DEF p, q, f

-----------------------------------------------------------------------------
(* The invariant.                                                          *)

Places == {"caller", "decode", "params", "encode", "flushed", "flush failed"}

Samples == [samples : {NULL, "live"}, count : Nat, channels : 0 .. 2]

WellTyped ==
  /\ pc \in Places /\ kept \in Nat /\ heap \in [Kinds -> Int]
  /\ pcm \in Samples /\ (pcm.samples # NULL => pcm.channels \in {1, 2})
  /\ info \in Samples /\ (info.samples # NULL => info.channels \in {1, 2})

\* Which blocks are live wherever the codec is.
Ledger ==
  /\ heap["samples"] = (IF pcm.samples = NULL THEN 0 ELSE 1)
  /\ heap["info"] = (IF pc = "decode" THEN kept + 1 ELSE kept)
  /\ heap["lame"] = (IF pc \in {"params", "encode"} THEN 1 ELSE 0)
  /\ heap["mp3buf"] = (IF out # NoOut \/ pc \in {"encode", "flushed", "flush failed"}
                       THEN 1 ELSE 0)
  /\ pc = "decode" => pcm.samples = NULL /\ info.samples # NULL
  /\ pc \in {"params", "encode", "flushed", "flush failed"} =>
       out = NoOut /\ pcm.samples # NULL

\* The stream holds the first g frames, and no more.
Encoded(c, g) ==
  lame.given = g /\ mp3buf = Frames(c, g) /\ total_written = g * c

\* LAME has been given the frames before the offset, and the stream holds those of
\* them that it has given out.
Stream ==
  /\ pc = "params" => mp3buf = << >> /\ lame = NoLame /\ offset = 0 /\ total_written = 0
  /\ pc = "encode" =>
       /\ offset \in 0 .. frame_samples
       /\ \E g \in 0 .. offset :
            lame.fed = Frames(pcm.channels, offset) /\ Encoded(pcm.channels, g)
  /\ pc = "flushed" =>
       /\ mp3buf = Frames(pcm.channels, frame_samples)
       /\ total_written = frame_samples * pcm.channels

CodecInv == WellTyped /\ Ledger /\ Stream

\* An encoder that has just begun has encoded no frame.
LEMMA NoFrames ==
  ASSUME NEW c
  PROVE  Frames(c, 0) = << >>
<1>1. Frames(c, 0) \in Seq(Nat \X Nat) /\ Len(Frames(c, 0)) = 0
  BY FramesAre
<1> QED
  BY <1>1, EmptySeq

\* A turn of the loop feeds LAME the next frames.
LEMMA ChunkFeeds ==
  ASSUME Mp3CodecAssumption, pcm.channels \in {1, 2}, pcm.count \in Nat,
         offset \in Nat, offset < frame_samples
  PROVE  /\ chunk \in Nat /\ frame_samples \in Nat /\ offset + chunk <= frame_samples
         /\ Frames(pcm.channels, offset) \o Chunk = Frames(pcm.channels, offset + chunk)
<1> DEFINE c == pcm.channels
<1>1. frame_samples \in Nat
  BY DEF frame_samples
<1> HIDE DEF frame_samples
<1>2. chunk \in Nat /\ offset + chunk <= frame_samples
  BY <1>1 DEF chunk, Mp3CodecAssumption
<1> HIDE DEF chunk
<1>3. Chunk = [i \in 1 .. chunk |-> Frame(c, offset + i)]
  <2>1. ASSUME NEW i \in 1 .. chunk
        PROVE  (IF c = 1 THEN <<offset + i - 1, offset + i - 1>>
                ELSE <<2 * (offset + i - 1), 2 * (offset + i - 1) + 1>>) = Frame(c, offset + i)
    BY <1>2 DEF Frame
  <2> QED
    BY <2>1 DEF Chunk
<1>4. Frames(c, offset) \o Chunk = Frames(c, offset + chunk)
  BY <1>2, <1>3, FramesFed
<1> QED
  BY <1>1, <1>2, <1>4

\* What LAME writes is the next frames of those that it has been fed.
LEMMA EmitsNext ==
  ASSUME NEW c \in {1, 2}, NEW g \in Nat, NEW k \in Nat, NEW n \in Nat,
         pcm.channels = c, Encoded(c, g), Emits(Frames(c, k), n), g + n <= k
  PROVE  lame'.fed = Frames(c, k) /\ Encoded(c, g + n)'
<1>1. total_written \div c = g /\ g * c + n * c = (g + n) * c
  <2>1. CASE c = 1
    BY <2>1 DEF Encoded
  <2>2. CASE c = 2
    BY <2>2 DEF Encoded
  <2> QED
    BY <2>1, <2>2
<1>2. mp3buf' = SubSeq(Frames(c, g), 1, g) \o SubSeq(Frames(c, k), g + 1, g + n)
  BY <1>1 DEF Emits, Encoded
<1>3. mp3buf' = Frames(c, g + n)
  BY <1>2, EmittedFrames
<1>4. lame' = [fed |-> Frames(c, k), given |-> g + n]
  BY DEF Emits, Encoded
<1>5. total_written' = (g + n) * c
  BY <1>1 DEF Emits, Encoded
<1> QED
  BY <1>3, <1>4, <1>5 DEF Encoded

LEMMA InitInv == Init => CodecInv
  BY DEF Init, CodecInv, WellTyped, Ledger, Stream, Places, Samples, Kinds, NoPcm, NoOut

\* Every call but those of the encoder's loop leaves a right stream.
LEMMA CallerSteps ==
  ASSUME Mp3CodecAssumption, CodecInv,
         \/ LoadFails \/ DecodeGivesUp \/ DecodeCopies
         \/ \E count \in 0 .. MaxSamples, channels \in {1, 2} : Load(count, channels)
         \/ mp3_codec_free_pcm \/ FreeStream
         \/ \E count \in 0 .. MaxSamples : Trim(count)
  PROVE  CodecInv'
<1> USE DEF CodecInv, WellTyped, Ledger, Stream, Places, Samples, Kinds, NoPcm, alloc, free,
            decoder, encoder
<1>1. CASE LoadFails
  BY <1>1 DEF LoadFails
<1>2. CASE DecodeGivesUp
  BY <1>2 DEF DecodeGivesUp, DecodeReturns
<1>3. CASE DecodeCopies
  BY <1>3 DEF DecodeCopies, DecodeReturns
<1>4. ASSUME NEW count \in 0 .. MaxSamples, NEW channels \in {1, 2}, Load(count, channels)
      PROVE  CodecInv'
  BY <1>4 DEF Load, Mp3CodecAssumption
<1>5. CASE mp3_codec_free_pcm
  <2> DEFINE freed == [pcm EXCEPT !.samples = NULL, !.count = 0]
  <2>1. freed \in Samples /\ freed.samples = NULL
    OBVIOUS
  <2> HIDE DEF freed
  <2>2. pcm' = freed /\ UNCHANGED <<info, kept, out, pc>> /\ pc = "caller"
    BY <1>5 DEF mp3_codec_free_pcm, freed
  <2>3. CASE pcm.samples = NULL
    BY <1>5, <2>1, <2>2, <2>3 DEF mp3_codec_free_pcm
  <2>4. CASE pcm.samples # NULL
    BY <1>5, <2>1, <2>2, <2>4 DEF mp3_codec_free_pcm
  <2> QED
    BY <2>3, <2>4
<1>6. CASE FreeStream
  BY <1>6 DEF FreeStream
<1>7. ASSUME NEW count \in 0 .. MaxSamples, Trim(count)
      PROVE  CodecInv'
  BY <1>7 DEF Trim, Mp3CodecAssumption
<1> QED
  BY <1>1, <1>2, <1>3, <1>4, <1>5, <1>6, <1>7

LEMMA FlushFailedInv ==
  ASSUME CodecInv, FlushFailed
  PROVE  CodecInv'
<1>1. pc = "flush failed" /\ pc' = "caller" /\ UNCHANGED <<pcm, info, kept, out>>
  BY DEF FlushFailed, EncodeReturns, decoder
<1>2. heap' = [k \in Kinds |-> IF k \in {"mp3buf"} THEN heap[k] - 1 ELSE heap[k]]
  BY DEF FlushFailed, free
<1>3. heap \in [Kinds -> Int]
  BY DEF CodecInv, WellTyped
<1>4. /\ heap'["samples"] = heap["samples"] /\ heap'["info"] = heap["info"]
      /\ heap'["mp3buf"] = heap["mp3buf"] - 1 /\ heap'["lame"] = heap["lame"]
      /\ heap' \in [Kinds -> Int]
  BY <1>2, <1>3 DEF Kinds
<1>5. WellTyped'
  BY <1>1, <1>4 DEF CodecInv, WellTyped, Places, Samples
<1>6. Ledger'
  <2>1. /\ heap["samples"] = (IF pcm.samples = NULL THEN 0 ELSE 1)
        /\ heap["info"] = kept /\ heap["lame"] = 0 /\ heap["mp3buf"] = 1
        /\ out = NoOut
    BY <1>1 DEF CodecInv, Ledger
  <2>2. /\ heap'["samples"] = (IF pcm'.samples = NULL THEN 0 ELSE 1)
        /\ heap'["info"] = kept' /\ heap'["lame"] = 0 /\ heap'["mp3buf"] = 0
        /\ out' = NoOut /\ pc' = "caller"
    <3>1. heap'["mp3buf"] = heap["mp3buf"] - 1 /\ heap["mp3buf"] = 1
      BY <1>4, <2>1
    <3>2. heap'["mp3buf"] = 0
      BY <3>1
    <3>3. UNCHANGED <<pcm, kept, out>> /\ pc' = "caller"
      BY <1>1
    <3>4. heap'["samples"] = heap["samples"] /\ heap'["info"] = heap["info"]
          /\ heap'["lame"] = heap["lame"]
      BY <1>4
    <3> QED
      BY <2>1, <3>2, <3>3, <3>4, Zenon
  <2>3. pc' # "decode" /\ pc' \notin {"params", "encode", "flushed", "flush failed"}
    BY <2>2
  <2> QED
    BY <2>2, <2>3, Zenon DEF Ledger
<1> QED
  BY <1>1, <1>5, <1>6 DEF CodecInv, Stream

LEMMA EncoderSteps ==
  ASSUME Mp3CodecAssumption, CodecInv,
         \/ EncodeBegins \/ ParamsFail \/ EncodeFails \/ FlushFailed \/ EncodeDone
  PROVE  CodecInv'
<1> USE DEF CodecInv, WellTyped, Ledger, Stream, Places, Samples, Kinds, alloc, free,
            decoder, EncodeReturns
<1>1. CASE EncodeBegins
  BY <1>1 DEF EncodeBegins
<1>2. CASE ParamsFail
  BY <1>2 DEF ParamsFail
<1>3. CASE EncodeFails
  BY <1>3 DEF EncodeFails
<1>4. CASE FlushFailed
  BY <1>4, FlushFailedInv
<1>5. CASE EncodeDone
  <2>1. mp3buf \in Seq(Nat \X Nat)
    <3>1. frame_samples \in Nat
      BY <1>5 DEF EncodeDone, frame_samples
    <3> QED
      BY <1>5, <3>1, FramesAre DEF EncodeDone
  <2>2. out' # NoOut
    BY <1>5, <2>1 DEF EncodeDone, NoOut, Mp3CodecAssumption
  <2> QED
    BY <1>5, <2>2 DEF EncodeDone
<1> QED
  BY <1>1, <1>2, <1>3, <1>4, <1>5

LEMMA ParamsAcceptedInv ==
  ASSUME CodecInv, ParamsAccepted
  PROVE  CodecInv'
<1>1. WellTyped' /\ Ledger'
  BY DEF ParamsAccepted, CodecInv, WellTyped, Ledger, Places, Samples, Kinds, alloc, decoder,
         encoder
<1>2. Stream'
  <2>1. /\ pcm' = pcm /\ lame' = NoLame /\ mp3buf' = << >> /\ offset' = 0
        /\ total_written' = 0 /\ pc' = "encode" /\ pcm.channels \in {1, 2} /\ pcm.count \in Nat
    BY DEF ParamsAccepted, CodecInv, WellTyped, Ledger, Stream, Samples, encoder
  <2>2. Frames(pcm.channels, 0) = << >>
    BY NoFrames
  <2>3. frame_samples \in Nat /\ frame_samples' = frame_samples
    BY <2>1 DEF frame_samples
  <2>4. /\ pc' = "encode" /\ offset' = 0 /\ lame'.fed = Frames(pcm'.channels, 0)
        /\ lame'.given = 0 /\ mp3buf' = Frames(pcm'.channels, 0) /\ total_written' = 0
        /\ pcm'.channels \in {1, 2} /\ frame_samples' \in Nat
    BY <2>1, <2>2, <2>3 DEF NoLame
  <2>5. total_written' = 0 * pcm'.channels
    BY <2>4
  <2>6. Encoded(pcm.channels, 0)'
    BY <2>4, <2>5 DEF Encoded
  <2>7. 0 \in 0 .. frame_samples' /\ 0 \in 0 .. offset'
    BY <2>4
  <2> QED
    BY <2>4, <2>6, <2>7 DEF Stream
<1> QED
  BY <1>1, <1>2 DEF CodecInv

LEMMA EncodeChunkInv ==
  ASSUME Mp3CodecAssumption, CodecInv, NEW n \in 0 .. MaxSamples, EncodeChunk(n)
  PROVE  CodecInv'
<1> DEFINE c == pcm.channels
<1>1. /\ pc = "encode" /\ pc' = "encode" /\ pcm' = pcm /\ c \in {1, 2} /\ pcm.count \in Nat
      /\ offset < frame_samples /\ offset' = offset + chunk /\ n \in Nat
      /\ n <= Len(lame.fed) + chunk - lame.given
      /\ Emits(lame.fed \o Chunk, n)
  BY DEF EncodeChunk, CodecInv, WellTyped, Ledger, Samples, Mp3CodecAssumption
<1>2. PICK g \in 0 .. offset : lame.fed = Frames(c, offset) /\ Encoded(c, g)
  BY <1>1 DEF CodecInv, Stream
<1>3. offset \in Nat /\ g \in Nat
  BY <1>1 DEF CodecInv, Stream, frame_samples
<1>4. /\ chunk \in Nat /\ frame_samples \in Nat /\ offset + chunk <= frame_samples
      /\ Frames(c, offset) \o Chunk = Frames(c, offset + chunk)
  BY <1>1, <1>3, ChunkFeeds
<1>5. Len(lame.fed) = offset /\ lame.given = g /\ lame.fed \o Chunk = Frames(c, offset + chunk)
  BY <1>2, <1>3, <1>4, FramesAre DEF Encoded
<1>6. g + n <= offset + chunk /\ offset + chunk \in Nat
  <2> HIDE DEF c
  <2> QED
    BY <1>1, <1>3, <1>4, <1>5
<1>7. lame'.fed = Frames(c, offset + chunk) /\ Encoded(c, g + n)'
  <2>1. PICK d \in {1, 2}, k \in Nat : d = c /\ k = offset + chunk
    BY <1>1, <1>6
  <2>2. Emits(Frames(d, k), n) /\ pcm.channels = d /\ g + n <= k /\ Encoded(d, g)
    BY <1>1, <1>2, <1>5, <1>6, <2>1
  <2>3. lame'.fed = Frames(d, k) /\ Encoded(d, g + n)'
    BY <1>1, <1>3, <2>2, EmitsNext
  <2>4. Frames(d, g + n) = Frames(c', g + n) /\ d = c'
    BY <1>1, <2>1
  <2> QED
    BY <2>1, <2>3, <2>4 DEF Encoded
<1>8. WellTyped' /\ Ledger'
  <2>1. UNCHANGED <<heap, pcm, info, kept, out, pc>>
    BY DEF EncodeChunk, decoder
  <2> QED
    BY <2>1 DEF CodecInv, WellTyped, Ledger, Samples
<1>9. Stream'
  <2>1. frame_samples' = frame_samples
    BY <1>1 DEF frame_samples
  <2>2. offset' \in 0 .. frame_samples' /\ g + n \in 0 .. offset'
    BY <1>1, <1>3, <1>4, <1>6, <2>1
  <2> QED
    BY <1>1, <1>7, <2>2 DEF Stream
<1> QED
  BY <1>8, <1>9 DEF CodecInv

LEMMA FlushInv ==
  ASSUME CodecInv, lame_encode_flush
  PROVE  CodecInv'
<1> DEFINE c == pcm.channels
<1>1. /\ pc = "encode" /\ pcm' = pcm /\ c \in {1, 2} /\ pcm.count \in Nat
      /\ offset >= frame_samples /\ pc' \in {"flushed", "flush failed"}
  BY DEF lame_encode_flush, CodecInv, WellTyped, Ledger, Samples
<1>2. WellTyped' /\ Ledger'
  <2>1. /\ UNCHANGED <<pcm, info, kept, out>>
        /\ heap' = [k \in Kinds |-> IF k \in {"lame"} THEN heap[k] - 1 ELSE heap[k]]
    BY DEF lame_encode_flush, decoder, free
  <2>2. WellTyped /\ Ledger
    BY DEF CodecInv
  <2>3. /\ heap'["samples"] = heap["samples"] /\ heap'["info"] = heap["info"]
        /\ heap'["mp3buf"] = heap["mp3buf"] /\ heap'["lame"] = heap["lame"] - 1
        /\ heap' \in [Kinds -> Int]
    BY <2>1, <2>2 DEF WellTyped, Kinds
  <2>4. pc = "encode" /\ pc' \in {"flushed", "flush failed"}
    BY <1>1
  <2>5. WellTyped'
    BY <2>1, <2>2, <2>3, <2>4 DEF WellTyped, Places, Samples
  <2>6. Ledger'
    <3>1. /\ heap["samples"] = (IF pcm.samples = NULL THEN 0 ELSE 1)
          /\ heap["info"] = kept /\ heap["lame"] = 1 /\ heap["mp3buf"] = 1
          /\ out = NoOut /\ pcm.samples # NULL
      BY <2>2, <2>4 DEF Ledger
    <3>2. /\ heap'["samples"] = (IF pcm'.samples = NULL THEN 0 ELSE 1)
          /\ heap'["info"] = kept' /\ heap'["lame"] = 0 /\ heap'["mp3buf"] = 1
          /\ out' = NoOut /\ pcm'.samples # NULL
      BY <2>1, <2>3, <3>1
    <3> QED
      BY <2>4, <3>2 DEF Ledger
  <2> QED
    BY <2>5, <2>6
<1>3. Stream'
  <2>1. CASE pc' = "flush failed"
    BY <2>1 DEF Stream
  <2>2. CASE pc' = "flushed"
    <3>1. PICK g \in 0 .. offset : lame.fed = Frames(c, offset) /\ Encoded(c, g)
      BY <1>1 DEF CodecInv, Stream
    <3>2. frame_samples \in Nat /\ frame_samples' = frame_samples
      <4>1. pcm' = pcm /\ pcm.channels \in {1, 2} /\ pcm.count \in Nat
        BY <1>1
      <4> QED
        BY <4>1 DEF frame_samples
    <3>3. offset = frame_samples /\ g \in Nat /\ offset \in Nat
      <4>1. offset \in 0 .. frame_samples
        BY <1>1 DEF CodecInv, Stream
      <4>2. offset >= frame_samples
        BY <1>1
      <4>3. frame_samples \in Nat
        BY <3>2
      <4> HIDE DEF c
      <4> QED
        BY <4>1, <4>2, <4>3
    <3>4. Len(lame.fed) = offset /\ lame.given = g /\ lame.fed = Frames(c, offset)
      BY <3>1, <3>3, FramesAre DEF Encoded
    <3>5. Emits(lame.fed, Len(lame.fed) - lame.given)
      BY <2>2 DEF lame_encode_flush
    <3>6. offset - g \in Nat /\ g + (offset - g) = offset
      BY <3>3
    <3>7. Emits(Frames(c, offset), offset - g)
      BY <3>4, <3>5
    <3>8. mp3buf' = Frames(c, offset) /\ total_written' = offset * c
      <4>1. PICK d \in {1, 2}, k \in Nat, n \in Nat : d = c /\ k = offset /\ n = offset - g
        BY <1>1, <3>3, <3>6
      <4>2. /\ Emits(Frames(d, k), n) /\ pcm.channels = d
            /\ g + n = k /\ Encoded(d, g)
        BY <3>1, <3>6, <3>7, <4>1
      <4>3. g + n <= k
        BY <4>2, <3>3
      <4>4. Encoded(d, g + n)'
        BY <3>3, <4>2, <4>3, EmitsNext
      <4>5. mp3buf' = Frames(d, g + n) /\ total_written' = (g + n) * d
        BY <4>4 DEF Encoded
      <4> QED
        BY <4>1, <4>2, <4>5
    <3> QED
      BY <1>1, <2>2, <3>2, <3>3, <3>8 DEF Stream
  <2> QED
    BY <1>1, <2>1, <2>2
<1> QED
  BY <1>2, <1>3 DEF CodecInv

LEMMA NextInv ==
  ASSUME Mp3CodecAssumption, CodecInv, [Next]_vars
  PROVE  CodecInv'
<1>1. CASE \/ LoadFails \/ DecodeGivesUp \/ DecodeCopies
           \/ \E count \in 0 .. MaxSamples, channels \in {1, 2} : Load(count, channels)
           \/ mp3_codec_free_pcm \/ FreeStream
           \/ \E count \in 0 .. MaxSamples : Trim(count)
  BY <1>1, CallerSteps
<1>2. CASE EncodeBegins \/ ParamsFail \/ EncodeFails \/ FlushFailed \/ EncodeDone
  BY <1>2, EncoderSteps
<1>3. CASE ParamsAccepted
  BY <1>3, ParamsAcceptedInv
<1>4. CASE \E n \in 0 .. MaxSamples : EncodeChunk(n)
  BY <1>4, EncodeChunkInv
<1>5. CASE lame_encode_flush
  BY <1>5, FlushInv
<1>6. CASE UNCHANGED vars
  <2>1. UNCHANGED <<heap, pcm, info, kept, out, mp3buf, lame, offset, total_written, pc>>
    BY <1>6 DEF vars, decoder, encoder
  <2>2. WellTyped' /\ Ledger'
    BY <2>1 DEF CodecInv, WellTyped, Ledger
  <2>3. Stream'
    BY <2>1 DEF CodecInv, Stream, Encoded, frame_samples
  <2> QED
    BY <2>2, <2>3 DEF CodecInv
<1> QED
  BY <1>1, <1>2, <1>3, <1>4, <1>5, <1>6 DEF Next

LEMMA CodecInvariant == Spec => []CodecInv
  BY InitInv, NextInv, Mp3CodecAssumption, PTL DEF Spec

-----------------------------------------------------------------------------
(* In whatever order decode, encode, free_pcm and the caller's own steps   *)
(* are taken - decode once the samples of the last one are freed - and     *)
(* wherever each of them fails, the blocks that are live between two calls *)
(* are the caller's, and minimp3's after a failed load                     *)
(* (mp3_codec.c:30-152).                                                   *)
THEOREM EveryBlockAccountedFor == Spec => []NothingLost
<1>1. CodecInv => NothingLost
  <2> SUFFICES ASSUME CodecInv PROVE NothingLost
    OBVIOUS
  <2>1. heap \in [Kinds -> Int]
    BY DEF CodecInv, WellTyped
  <2> QED
    BY <2>1 DEF CodecInv, Ledger, NothingLost, Kinds
<1> QED
  BY <1>1, CodecInvariant, PTL

(* A stream that encode hands out holds every frame of the samples once,   *)
(* in order, for chunks of any size and whatever LAME keeps back between   *)
(* them (mp3_codec.c:104-152).                                             *)
THEOREM StreamHoldsEveryFrame == Spec => StreamIsWhole
<1>1. ASSUME CodecInv, Next, out' # out, out' # NoOut
      PROVE  LET n == pcm.count \div pcm.channels
             IN  /\ out'.size = n * pcm.channels
                 /\ out'.data = [i \in 1 .. n |-> IF pcm.channels = 1 THEN <<i - 1, i - 1>>
                                                  ELSE <<2 * i - 2, 2 * i - 1>>]
  <2>1. EncodeDone
    BY <1>1 DEF Next, LoadFails, DecodeGivesUp, DecodeCopies, DecodeReturns, Load,
                mp3_codec_free_pcm, FreeStream, Trim, EncodeBegins, ParamsFail,
                ParamsAccepted, EncodeChunk, EncodeFails, lame_encode_flush, FlushFailed,
                EncodeReturns
  <2>2. /\ out'.data = Frames(pcm.channels, frame_samples)
        /\ out'.size = frame_samples * pcm.channels
    BY <1>1, <2>1 DEF EncodeDone, CodecInv, Stream
  <2> QED
    BY <2>2 DEF frame_samples, Frames, Frame
<1>2. CodecInv /\ [Next]_vars =>
        [out' # out /\ out' # NoOut =>
           LET n == pcm.count \div pcm.channels
           IN  /\ out'.size = n * pcm.channels
               /\ out'.data = [i \in 1 .. n |-> IF pcm.channels = 1 THEN <<i - 1, i - 1>>
                                                ELSE <<2 * i - 2, 2 * i - 1>>]]_vars
  BY <1>1 DEF vars
<1> QED
  BY <1>2, CodecInvariant, PTL DEF Spec, StreamIsWhole
=============================================================================
