------------------------------ MODULE PcmGain ------------------------------
(***************************************************************************)
(* The volume of a chat and what it does to a frame:                       *)
(* CommandDispatcher::handle_volume, AudioStreamer::set_volume and         *)
(* AudioStreamer::on_frame_received (src/audio/audio_streamer.cpp).        *)
(* A frame is a sequence of 16 bit samples.                                *)
(***************************************************************************)
EXTENDS Integers, Sequences

Samples == {x \in Int : -32768 <= x /\ x <= 32767}           \* int16_t
Ints == {x \in Int : -2147483648 <= x /\ x <= 2147483647}    \* int

Clamp(x, low, high) == IF x < low THEN low ELSE IF x > high THEN high ELSE x

\* Division in C++ truncates.
Quotient(x, d) == IF x >= 0 THEN x \div d ELSE -((-x) \div d)

\* What a request for a volume makes of the volume of a session, 100 at first.
handle_volume(volume, vol) == IF vol < 1 \/ vol > 200 THEN volume ELSE Clamp(vol, 0, 200)

scaled(sample, vol) == Clamp(Quotient(sample * vol, 100), -32768, 32767)

Scaling(frame, vol) == [i \in 1 .. Len(frame) |-> scaled(frame[i], vol)]

on_frame_received(frame, vol) == IF vol = 100 THEN frame ELSE Scaling(frame, vol)
=============================================================================
