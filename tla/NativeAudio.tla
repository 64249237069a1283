------------------------------ MODULE NativeAudio ------------------------------
(***************************************************************************)
(* The sound buffer of the native port (am/src/native/devices/audio.c) and *)
(* of the nemu port (am/src/nemu/common/audio.c), as the audio test of     *)
(* amtest and other programs use it.                                       *)
(*                                                                         *)
(* Two threads share count without a lock: audio_write of the program adds *)
(* to it, audio_play, which SDL calls, takes from it.  count is volatile,  *)
(* so each access in the source is one access in the model.  On nemu the   *)
(* second thread is the device.                                            *)
(***************************************************************************)
EXTENDS Integers

CONSTANTS
  SbufSize,  (* init.bufsize: 8192 bytes in the test *)
  Chunk,     (* bytes of one write, 4096 in the test *)
  Len0,      (* bytes SDL asks for, 2048 in the test *)
  Samples    (* length of what is played *)

ASSUME AudioAssumption == {SbufSize, Chunk, Len0, Samples} \subseteq Nat \ {0} /\ Chunk <= SbufSize

VARIABLES
  port,      (* "native" or "nemu" *)
  wait,      (* ctl.wait: the test waits for room, other programs need not *)
  count, sb_head, sb_tail, sbuf,
  w_at, nwrite, w_count, nplay,   (* the program, what it has loaded of count *)
  p_at, nread, p_count,           (* audio_play *)
  heard,     (* the last sample that was heard in its order *)
  wrong,     (* history: something else was heard *)
  lost,      (* history: a thread's store to count undid the other's *)
  overrun    (* history: audio_play has written behind the end of stream *)

audioVars == <<port, wait, count, sb_head, sb_tail, sbuf, w_at, nwrite, w_count, nplay,
               p_at, nread, p_count, heard, wrong, lost, overrun>>
wVars == <<w_at, nwrite, w_count, nplay>>
pVars == <<p_at, nread, p_count>>
hVars == <<heard, wrong, overrun>>

(* After _DEVREG_AUDIO_INIT.  Sample 0 is silence.                         *)
AudioInit ==
  /\ port \in {"native", "nemu"} /\ wait \in BOOLEAN
  /\ count = 0 /\ sb_head = 0 /\ sb_tail = 0
  /\ sbuf = [i \in 0 .. SbufSize - 1 |-> 0]
  /\ w_at = "wait" /\ nwrite = 0 /\ w_count = 0 /\ nplay = 0
  /\ p_at = "idle" /\ nread = 0 /\ p_count = 0
  /\ heard = 0 /\ wrong = FALSE /\ lost = FALSE /\ overrun = FALSE

Least(a, b) == IF a < b THEN a ELSE b

-----------------------------------------------------------------------------
(* The program.                                                            *)

WriteLen == Least(Chunk, Samples - nplay)

(* _DEVREG_AUDIO_SBCTRL: wait until there is room, or do not.              *)
AwaitRoom ==
  /\ w_at = "wait" /\ nplay < Samples
  /\ wait => SbufSize - count >= WriteLen
  /\ w_at' = "free"
  /\ UNCHANGED <<port, wait, count, sb_head, sb_tail, sbuf, nwrite, w_count, nplay,
                 pVars, hVars, lost>>

(* Mutant: what is written is not limited to the room there is.            *)
WriteSizeUnlimited ==
  /\ w_at = "free"
  /\ nwrite' = WriteLen
  /\ w_count' = count
  /\ w_at' = "copy"
  /\ UNCHANGED <<port, wait, count, sb_head, sb_tail, sbuf, nplay, pVars, hVars, lost>>

(* audio_write: int free = sbuf_size - count.  The nemu port keeps what it *)
(* has read of the register for the last line.                             *)
WriteSize ==
  /\ w_at = "free"
  /\ nwrite' = Least(WriteLen, SbufSize - count)
  /\ w_count' = count
  /\ w_at' = "copy"
  /\ UNCHANGED <<port, wait, count, sb_head, sb_tail, sbuf, nplay, pVars, hVars, lost>>

(* One or two memcpy, depending on whether the end of sbuf is reached.     *)
WriteCopy ==
  /\ w_at = "copy"
  /\ sbuf' = [i \in DOMAIN sbuf |->
                LET k == (i + SbufSize - sb_head) % SbufSize IN
                  IF k < nwrite THEN nplay + k + 1 ELSE sbuf[i]]
  /\ sb_head' = (sb_head + nwrite) % SbufSize
  /\ w_at' = IF port = "native" THEN "load" ELSE "store"
  /\ UNCHANGED <<port, wait, count, sb_tail, nwrite, w_count, nplay, pVars, hVars, lost>>

(* count += nwrite: native loads count again ...                           *)
WriteLoad ==
  /\ w_at = "load"
  /\ w_count' = count
  /\ w_at' = "store"
  /\ UNCHANGED <<port, wait, count, sb_head, sb_tail, sbuf, nwrite, nplay, pVars, hVars, lost>>

(* ... and stores it.                                                      *)
WriteStore ==
  /\ w_at = "store"
  /\ count' = w_count + nwrite
  /\ lost' = (lost \/ w_count # count)
  /\ nplay' = nplay + nwrite
  /\ w_at' = "wait"
  /\ UNCHANGED <<port, wait, sb_head, sb_tail, sbuf, nwrite, w_count, pVars, hVars>>

(* The end of the test: wait until everything has been played.             *)
Drained ==
  /\ w_at = "wait" /\ nplay >= Samples /\ count = 0
  /\ w_at' = "end"
  /\ UNCHANGED <<port, wait, count, sb_head, sb_tail, sbuf, nwrite, w_count, nplay,
                 pVars, hVars, lost>>

AudioMain == AwaitRoom \/ WriteSize \/ WriteCopy \/ WriteLoad \/ WriteStore \/ Drained

-----------------------------------------------------------------------------
(* audio_play: if (count < len) ...                                        *)
PlayCompare ==
  /\ port = "native" /\ p_at = "idle"
  /\ nread' = Len0
  /\ p_at' = IF count < Len0 THEN "size" ELSE "copy"
  /\ UNCHANGED <<port, wait, count, sb_head, sb_tail, sbuf, wVars, p_count, hVars, lost>>

(* ... nread = count: another load, of which nobody says that it is still  *)
(* less than len.                                                          *)
PlaySize ==
  /\ p_at = "size"
  /\ nread' = count
  /\ p_at' = "copy"
  /\ UNCHANGED <<port, wait, count, sb_head, sb_tail, sbuf, wVars, p_count, hVars, lost>>

(* n samples from the tail on are heard, those that fit into stream.       *)
Hear(n) ==
  LET m == Least(n, Len0)
      sample(k) == sbuf[(sb_tail + k) % SbufSize]
      inOrder == \A k \in 0 .. m - 1 : sample(k) = heard + k + 1
  IN  /\ heard' = IF inOrder THEN heard + m ELSE heard
      /\ wrong' = (wrong \/ ~ inOrder)
      /\ overrun' = (overrun \/ n > Len0)

(* Mutant: the tail moves by what was asked for.                           *)
PlayCopyAll ==
  /\ p_at = "copy"
  /\ Hear(nread)
  /\ sb_tail' = (sb_tail + Len0) % SbufSize
  /\ p_at' = "load"
  /\ UNCHANGED <<port, wait, count, sb_head, sbuf, wVars, nread, p_count, lost>>

PlayCopy ==
  /\ p_at = "copy"
  /\ Hear(nread)
  /\ sb_tail' = (sb_tail + nread) % SbufSize
  /\ p_at' = "load"
  /\ UNCHANGED <<port, wait, count, sb_head, sbuf, wVars, nread, p_count, lost>>

(* count -= nread                                                          *)
PlayLoad ==
  /\ p_at = "load"
  /\ p_count' = count
  /\ p_at' = "store"
  /\ UNCHANGED <<port, wait, count, sb_head, sb_tail, sbuf, wVars, nread, hVars, lost>>

(* Mutant: a store that stands for count = nread.                          *)
PlayStoreRead ==
  /\ p_at = "store"
  /\ count' = nread
  /\ lost' = (lost \/ p_count # count)
  /\ p_at' = "idle"
  /\ UNCHANGED <<port, wait, sb_head, sb_tail, sbuf, wVars, nread, p_count, hVars>>

PlayStore ==
  /\ p_at = "store"
  /\ count' = p_count - nread
  /\ lost' = (lost \/ p_count # count)
  /\ p_at' = "idle"
  /\ UNCHANGED <<port, wait, sb_head, sb_tail, sbuf, wVars, nread, p_count, hVars>>

(* The device of nemu takes samples and counts them in one go (external).  *)
DevicePlays ==
  /\ port = "nemu" /\ count > 0
  /\ LET n == Least(count, Len0) IN
       /\ Hear(n)
       /\ sb_tail' = (sb_tail + n) % SbufSize
       /\ count' = count - n
  /\ UNCHANGED <<port, wait, sb_head, sbuf, wVars, pVars, lost>>

AudioDevice ==
  PlayCompare \/ PlaySize \/ PlayCopy \/ PlayLoad \/ PlayStore \/ DevicePlays

AudioSpec == AudioInit /\ [][AudioMain \/ AudioDevice]_audioVars

-----------------------------------------------------------------------------
(* Whatever the two threads do to each other's updates, count stays a      *)
(* number of bytes of sbuf: neither memcpy of either thread can leave sbuf,*)
(* whose indices it is taken for without a check.                          *)
AudioCountInRange ==
  /\ count \in 0 .. SbufSize
  /\ nwrite \in 0 .. SbufSize
  /\ p_at # "size" => nread \in 0 .. SbufSize

(* What makes it so: the program's copy of count is never below count, the *)
(* copy of audio_play never above, so that a store that undoes another one *)
(* still leaves count between the two.                                     *)
AudioInv ==
  /\ port \in {"native", "nemu"} /\ (port = "nemu" => p_at = "idle")
  /\ w_at \in {"wait", "free", "copy", "load", "store", "end"}
  /\ p_at \in {"idle", "size", "copy", "load", "store"}
  /\ nplay \in 0 .. Samples /\ w_count \in Nat /\ p_count \in Nat
  /\ count \in 0 .. SbufSize /\ nwrite \in 0 .. SbufSize /\ nread \in Nat
  /\ p_at # "size" => nread <= SbufSize
  /\ w_at = "free" => nplay < Samples
  /\ w_at \in {"copy", "load", "store"} =>
       count <= w_count /\ w_count + nwrite <= SbufSize /\ nplay + nwrite <= Samples
  /\ p_at \in {"copy", "load"} => nread <= count
  /\ p_at = "store" => nread <= p_count /\ p_count <= count

(* Samples are heard in order and each once, through any number of turns   *)
(* of the ring and whichever thread is ahead, as long as no update of      *)
(* count was lost (audio.c:25 and 43) and audio_play did not take more     *)
(* than it was asked for (audio.c:16, which loads count twice).            *)
AudioInOrder ==
  ~ lost /\ ~ overrun =>
    /\ ~ wrong
    /\ w_at = "end" => heard = Samples
=============================================================================
