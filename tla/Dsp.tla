-------------------------------- MODULE Dsp ---------------------------------
(***************************************************************************)
(* The speech processor: the status and command ports (io_new.cpp), the    *)
(* words it takes (dsp.cpp), and the two queues its samples pass on their  *)
(* way to the host (sound.cpp).  Only how many samples there are is        *)
(* modelled, and in smaller frames.                                        *)
(*                                                                         *)
(* A polite program reads the status before each word, and writes when the *)
(* processor neither sleeps nor has a word it has not fetched.             *)
(*                                                                         *)
(* Left out: the return data of port 31 and the flags that announce it,    *)
(* and the fades, which change samples and not their number.               *)
(***************************************************************************)
EXTENDS Integers, FiniteSetsExt, Models

CONSTANTS
  Frame,                \* samples in a frame, 240
  FrameWords,           \* words in a frame, 15
  dsp_busy_len_wqx,     \* 5000
  dsp_drop_len_wqx,     \* 10000
  dsp_drop_len_host,    \* 10000
  Words,                \* inputs: <<high, low>>
  Moved,                \* inputs: samples dsp_move may take in a slice
  MaxData               \* bound: words of one syllable

ASSUME DspAssumption ==
  /\ {Frame, FrameWords, MaxData} \subseteq Nat \ {0}
  /\ {dsp_busy_len_wqx, dsp_drop_len_wqx, dsp_drop_len_host} \subseteq Nat
  /\ FrameWords \in 3..MaxData     \* the ids 0, 1 and 2 head a frame
  /\ Words \subseteq (0..255) \X (0..255)
  /\ Moved \subseteq Nat \ {0}

\* samples of the longest syllable, for which a busy queue still has room
Longest == Frame * (MaxData \div FrameWords)
ASSUME SyllableAssumption == dsp_busy_len_wqx + Frame + Longest <= dsp_drop_len_wqx

VARIABLES
  dspSleep, dspTrans,
  fed,                    \* dsp_data_feeded_but_hasnt_fetched
  dspMode, dspCelpOff,
  data_cnt, c2, c4, c8,
  buf_frame,              \* samples of the syllable under way
  wqx, host,              \* samples in sound_stream_dsp_wqx and sound_stream_dsp_host
  told,                   \* history: what the status last said, nothing since a word
  waits,                  \* history: slices since it began to say "wait"
  polite,                 \* the program is polite, and nothing made the status forget a word
  lost                    \* history: samples were dropped

portVarsDsp == <<dspSleep, dspTrans, fed>>
voiceVars == <<dspMode, dspCelpOff, data_cnt, c2, c4, c8, buf_frame>>
dspVars == <<portVarsDsp, voiceVars, wqx, host, told, waits, polite, lost>>

NONE_MODE == 0
CELP_MODE == 1
WORD_MODE == 2
PCM_MODE == 4

DspTypeOK ==
  /\ {dspSleep, dspTrans, fed, polite, lost} \subseteq BOOLEAN
  /\ dspMode \in {NONE_MODE, CELP_MODE, WORD_MODE, PCM_MODE}
  /\ dspCelpOff \in 0..(FrameWords + 1) /\ data_cnt \in 0..MaxData
  /\ {c2, c4, c8} \subseteq 0..255
  /\ buf_frame \in 0..Longest
  /\ wqx \in 0..dsp_drop_len_wqx /\ host \in 0..dsp_drop_len_host
  /\ told \in {"free", "wait", "nothing"}
  /\ waits \in 0..(dsp_drop_len_wqx - dsp_busy_len_wqx)

DspInit ==
  /\ dspSleep = FALSE /\ dspTrans = FALSE /\ fed = FALSE
  /\ dspMode = NONE_MODE /\ dspCelpOff = 0
  /\ data_cnt = 0 /\ c2 = 0 /\ c4 = 0 /\ c8 = 0 /\ buf_frame = 0
  /\ wqx = 0 /\ host = 0
  /\ told = "nothing" /\ waits = 0 /\ polite \in BOOLEAN /\ lost = FALSE

sound_busy == wqx > dsp_busy_len_wqx
HasntFetched == ~dspSleep /\ sound_busy /\ fed

----------------------------------------------------------------------------
(* The status port.                                                        *)

\* a sleep or a reset drops the note that a word waits, and no sample of the queue
Forgets == sound_busy' /\ (dspSleep' \/ (fed /\ ~fed'))

Tell(answer) ==
  /\ told' = answer
  /\ waits' = IF answer = "wait" THEN waits ELSE 0

\* reading finds the word consumed as soon as the queue is short enough
dsp30read_Stat ==
  /\ ~nc3000mode
  /\ fed' = (fed /\ ~dspSleep /\ sound_busy)
  /\ Tell(IF dspSleep \/ HasntFetched THEN "wait" ELSE "free")
  /\ UNCHANGED <<dspSleep, dspTrans, voiceVars, wqx, host, lost>>
  /\ polite' = (polite /\ ~Forgets)

\* on the nc3000 the port reads as a register nothing was stored in
ReadNoStatus ==
  /\ nc3000mode
  /\ Tell("free")
  /\ UNCHANGED <<portVarsDsp, voiceVars, wqx, host, polite, lost>>

----------------------------------------------------------------------------
(* Words.  Ring has the samples a word lets out, Voice what it leaves in   *)
(* the processor; a word that is not understood changes neither.           *)

Voice == [mode |-> dspMode, off |-> dspCelpOff, cnt |-> data_cnt,
          c2 |-> c2, c4 |-> c4, c8 |-> c8, buf |-> buf_frame, out |-> 0]

\* Dsp::reset leaves the place in the frame alone
ResetVoice(v) == [v EXCEPT !.mode = CELP_MODE, !.cnt = 0, !.buf = 0]

\* writeSample8000, n times
Samples(v, n) ==
  IF v.mode = WORD_MODE THEN [v EXCEPT !.buf = @ + n] ELSE [v EXCEPT !.out = n]

\* a word of a frame: the ids 0, 1, 2 head it, 3, 4 and 5 follow in turn.  With
\* dspCelpOff at FrameWords the store lands in dspCelpOff itself, which is past
\* the limit either way.  data_cnt is looked at in WORD_MODE only, and zeroed
\* on the way there
CelpWord(high) ==
  LET id == high \div 16
      v == [Voice EXCEPT !.cnt = IF dspMode = WORD_MODE THEN @ + 1 ELSE 0]
      placed == [v EXCEPT !.off = (IF id < 3 THEN id ELSE @) + 1]
  IN CASE v.off > FrameWords -> ResetVoice(v)
       [] v.off <= FrameWords /\ id < 3 -> placed
       [] v.off <= FrameWords /\ id >= 3 /\ (v.off % 3) + 3 = id ->
            IF placed.off = FrameWords THEN Samples(placed, Frame) ELSE placed
       [] OTHER -> v

\* 0xc3 and 0xc1: the syllable is cut and let out if its lengths agree
SyllableEnd ==
  LET frames == data_cnt \div FrameWords
      end == IF c4 = 0 THEN Frame * frames ELSE c4 + Frame * frames - Frame
      cut == (IF end > buf_frame THEN buf_frame ELSE end) - c2
  IN IF data_cnt % FrameWords # 0 \/ end # c4 + Frame * c8
     THEN ResetVoice(Voice)
     ELSE [Voice EXCEPT !.cnt = 0, !.buf = 0, !.out = IF cut > 0 THEN cut ELSE 0]

SyllableWord(high, low) ==
  CASE dspMode # WORD_MODE -> Voice
    [] dspMode = WORD_MODE /\ high = 194 -> [Voice EXCEPT !.c2 = low, !.cnt = 0]
    [] dspMode = WORD_MODE /\ high = 196 -> [Voice EXCEPT !.c4 = low, !.cnt = 0]
    [] dspMode = WORD_MODE /\ high = 200 -> [Voice EXCEPT !.c8 = low, !.cnt = 0]
    [] dspMode = WORD_MODE /\ high \in {193, 195} -> SyllableEnd
    [] OTHER -> Voice

ModeWord(low) ==
  IF low \in {NONE_MODE, CELP_MODE, WORD_MODE, PCM_MODE}
  THEN [Voice EXCEPT !.mode = low, !.cnt = 0]
  ELSE ResetVoice(Voice)

\* Dsp::write.  dsp33write_cmd_data passes no data below 0x40 in NONE_MODE, and
\* Dsp::write drops the rest of it there
DspWrite(high, low) ==
  CASE dspMode = PCM_MODE /\ high = 255 -> [Voice EXCEPT !.mode = CELP_MODE]
    [] dspMode = PCM_MODE /\ high # 255 -> Samples(Voice, 1)
    [] dspMode \in {CELP_MODE, WORD_MODE} /\ high < 96 -> CelpWord(high)
    [] dspMode # PCM_MODE /\ high = 160 -> ModeWord(low)
    [] dspMode # PCM_MODE /\ high \in 192..207 -> SyllableWord(high, low)
    [] OTHER -> Voice

SetVoice(v) ==
  /\ dspMode' = v.mode /\ dspCelpOff' = v.off /\ data_cnt' = v.cnt
  /\ c2' = v.c2 /\ c4' = v.c4 /\ c8' = v.c8
  /\ buf_frame' = v.buf

\* variant: the queue has room for one more when it is full
QueueOneMore(n) ==
  /\ wqx' = Min({wqx + n, dsp_drop_len_wqx + 1})
  /\ lost' = (lost \/ wqx + n > dsp_drop_len_wqx + 1)

\* dsp_call_back: what the queue has no room for is dropped
Queue(n) ==
  /\ wqx' = Min({wqx + n, dsp_drop_len_wqx})
  /\ lost' = (lost \/ wqx + n > dsp_drop_len_wqx)

\* dspCmd: whatever the mode, 0x8000 puts to sleep and 0x7004 opens a transfer,
\* which 0xffff ends
SleepAfter(word) == dspSleep \/ word = <<128, 0>>
TransAfter(word) == word = <<112, 4>> \/ (dspTrans /\ word # <<255, 255>>)

\* variant: a word is taken for fetched unless the queue is full
FedAfterFull(sleep) == fed \/ (~sleep /\ wqx >= dsp_drop_len_wqx)

FedAfter(sleep) == fed \/ (~sleep /\ sound_busy)

dsp33write_cmd_data(word) ==
  /\ polite => told = "free"
  /\ dspMode = WORD_MODE /\ word[1] < 96 => data_cnt < MaxData /\ buf_frame < Longest
  /\ dspSleep' = SleepAfter(word)
  /\ dspTrans' = TransAfter(word)
  /\ IF TransAfter(word)
     THEN UNCHANGED <<fed, voiceVars, wqx, lost>>
     ELSE /\ fed' = FedAfter(SleepAfter(word))
          /\ SetVoice(DspWrite(word[1], word[2]))
          /\ Queue(DspWrite(word[1], word[2]).out)
  /\ told' = "nothing" /\ waits' = 0
  /\ polite' = (polite /\ ~Forgets)
  /\ UNCHANGED host

\* either bit wakes and resets the processor, the reset bit ends a transfer too
dsp30write_reset_wake(resets) ==
  /\ dspSleep' = FALSE
  /\ SetVoice(ResetVoice(Voice))
  /\ IF resets THEN fed' = FALSE /\ dspTrans' = FALSE ELSE UNCHANGED <<fed, dspTrans>>
  /\ told' = "nothing" /\ waits' = 0
  /\ UNCHANGED <<wqx, host, lost>>
  /\ polite' = (polite /\ ~Forgets)

----------------------------------------------------------------------------
(* The queues.                                                             *)

\* variant: what the host has no room for stays
TakenByHost(len) == Min({len, wqx, dsp_drop_len_host - host})

Taken(len) == Min({len, wqx})

\* at the end of a slice of cpu_run3
dsp_move(len) ==
  /\ wqx' = wqx - Taken(len)
  /\ host' = Min({host + Taken(len), dsp_drop_len_host})
  /\ waits' = IF told = "wait" /\ waits < dsp_drop_len_wqx - dsp_busy_len_wqx
              THEN waits + 1 ELSE waits
  /\ UNCHANGED <<portVarsDsp, voiceVars, told, polite, lost>>

\* audio_mix_cb takes a sample
HostPlays ==
  /\ host > 0 /\ host' = host - 1
  /\ UNCHANGED <<portVarsDsp, voiceVars, wqx, told, waits, polite, lost>>

\* nc2k_states.reset knows the ports and not the processor
DspColdReset ==
  /\ dspSleep' = FALSE /\ dspTrans' = FALSE /\ fed' = FALSE
  /\ told' = "nothing" /\ waits' = 0
  /\ UNCHANGED <<voiceVars, wqx, host, lost>>
  /\ polite' = (polite /\ ~Forgets)

DspNext ==
  \/ dsp30read_Stat \/ ReadNoStatus
  \/ \E word \in Words : dsp33write_cmd_data(word)
  \/ \E resets \in BOOLEAN : dsp30write_reset_wake(resets)
  \/ \E len \in Moved : dsp_move(len)
  \/ HostPlays
  \/ DspColdReset

----------------------------------------------------------------------------
(* Properties.                                                             *)

\* Speech of a program that asks before each word is never cut: the processor says
\* "wait" early enough that a frame or a syllable still fits, whatever modes and
\* transfers come between.  Not so after a sleep or a reset that forgot a waiting
\* word, nor on the nc3000, where the status cannot be read (sound.cpp:156, 190).
PoliteProgramLosesNothing == polite /\ ~nc3000mode => ~lost

\* A program that polls gets on: whatever the host's sound card does, a slice takes
\* samples from the queue, so after as many slices as the queue can be too long
\* the word counts as fetched (sound.cpp:166, 175).
PollingEnds ==
  waits >= dsp_drop_len_wqx - dsp_busy_len_wqx => ~HasntFetched
=============================================================================
