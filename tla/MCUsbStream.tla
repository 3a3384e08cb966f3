------------------------------ MODULE MCUsbStream ------------------------------
(***************************************************************************)
(* A USB audio interface with 4-channel 16-bit frames (8 bytes) at 8 kHz:  *)
(* eight frames per 1 ms packet, freqn = 131072 in Q10.14.  The core sets  *)
(* the smallest period the driver allows (64 bytes, 8 frames) and two      *)
(* periods, so init_substream_urbs() makes two URBs of one packet.        *)
(* Playback uses an asynchronous endpoint with 64-byte packets and a sync  *)
(* pipe; capture a synchronous one with 64-byte packets.                   *)
(***************************************************************************)
EXTENDS UsbStream

Async64 == [sync |-> TRUE, syncok |-> TRUE, fill_max |-> FALSE, maxpack |-> 64]
Sync64 == [sync |-> FALSE, syncok |-> TRUE, fill_max |-> FALSE, maxpack |-> 64]
\* an adaptive endpoint with FILL_MAX and 72-byte packets (9 frames)
FillMax72 == [sync |-> FALSE, syncok |-> TRUE, fill_max |-> TRUE, maxpack |-> 72]
\* an asynchronous endpoint whose descriptor lacks a valid sync endpoint
BadSync64 == [sync |-> TRUE, syncok |-> FALSE, fill_max |-> FALSE, maxpack |-> 64]

McFormats == [playback |-> {Async64}, capture |-> {Sync64}]
McAllFormats == [playback |-> {Async64, FillMax72, BadSync64},
                 capture |-> {Sync64, FillMax72}]
McSetups == {[period |-> 8, buffer |-> 16]}
\* the device asks for the nominal rate, or for 11 frames (rejected)
McFeedback == {131072, 180224}
\* a capture packet: lost, one frame short, or full
McCaptureLens == {0, 7, 8}
====
