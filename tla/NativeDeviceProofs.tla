--------------------------- MODULE NativeDeviceProofs ---------------------------
(***************************************************************************)
(* The sound buffer and the key queue of the native port, for every size   *)
(* of the two rings: what is in a ring is what was put there, in order,    *)
(* through any number of turns.                                            *)
(***************************************************************************)
EXTENDS Native, TLAPS

-----------------------------------------------------------------------------
(* Remainders.                                                             *)

(* Quotient and remainder.                                                 *)
LEMMA DivMod ==
  ASSUME NEW n \in Nat \ {0}, NEW a \in Int
  PROVE  a \div n \in Int /\ a % n \in 0 .. n - 1 /\ a = n * (a \div n) + (a % n)
  OBVIOUS

(* The products the steps below compare.                                   *)
LEMMA Distribute ==
  ASSUME NEW n \in Int, NEW x \in Int, NEW y \in Int
  PROVE  n * (x + y) = n * x + n * y /\ n * (x - y) = n * x - n * y /\ n * (-x) = -(n * x)
  OBVIOUS

(* The remainder is the only number below n at a multiple of n.            *)
LEMMA Remainder ==
  ASSUME NEW n \in Nat \ {0}, NEW q \in Int, NEW r \in 0 .. n - 1
  PROVE  (n * q + r) % n = r
  OBVIOUS

(* Two numbers have the same remainder if they are a multiple of n apart.  *)
LEMMA SameRemainder ==
  ASSUME NEW n \in Nat \ {0}, NEW a \in Int, NEW b \in Int
  PROVE  a % n = b % n <=> \E q \in Int : a = b + n * q
<1>1. ASSUME a % n = b % n PROVE \E q \in Int : a = b + n * q
  <2> DEFINE q == (a \div n) - (b \div n)
  <2>1. q \in Int /\ n * q = n * (a \div n) - n * (b \div n) BY DivMod, Distribute
  <2>2. a = b + n * q BY <1>1, <2>1, DivMod
  <2> QED BY <2>1, <2>2
<1>2. ASSUME NEW q \in Int, a = b + n * q PROVE a % n = b % n
  <2> DEFINE p == (b \div n) + q
  <2>1. p \in Int /\ n * p = n * (b \div n) + n * q BY DivMod, Distribute
  <2>2. a = n * p + (b % n) BY <1>2, <2>1, DivMod
  <2>3. b % n \in 0 .. n - 1 BY DivMod
  <2> HIDE DEF p
  <2> QED BY <2>1, <2>2, <2>3, Remainder
<1> QED BY <1>1, <1>2

(* A remainder may be taken before a sum or after it.                      *)
LEMMA Adding ==
  ASSUME NEW n \in Nat \ {0}, NEW a \in Int, NEW b \in Int
  PROVE  ((a % n) + b) % n = (a + b) % n
<1> DEFINE x == (a % n) + b
           y == a + b
           q == - (a \div n)
<1>1. x \in Int /\ y \in Int /\ q \in Int BY DivMod
<1>2. x = y + n * q BY DivMod, Distribute
<1>3. x % n = y % n
  <2> HIDE DEF x, y, q
  <2> QED BY <1>1, <1>2, SameRemainder
<1> QED BY <1>3

(* Different numbers with the same remainder are at least n apart.         *)
LEMMA Apart ==
  ASSUME NEW n \in Nat \ {0}, NEW a \in Int, NEW b \in Int, a % n = b % n, a < b
  PROVE  a + n <= b
<1>1. PICK q \in Int : b = a + n * q BY SameRemainder
<1>2. q >= 1 BY <1>1
<1> QED BY <1>1, <1>2

(* A number below n is its own remainder.                                  *)
LEMMA Small ==
  ASSUME NEW n \in Nat \ {0}, NEW r \in 0 .. n - 1
  PROVE  r % n = r
OBVIOUS

-----------------------------------------------------------------------------
(* The sound buffer: count stays in range.                                 *)

(* The sizes are positive.                                                 *)
LEMMA Sizes ==
  /\ SbufSize \in Nat \ {0} /\ Chunk \in Nat \ {0} /\ Len0 \in Nat \ {0} /\ Samples \in Nat \ {0}
  /\ Chunk <= SbufSize
BY AudioAssumption

(* Taking the lesser of two numbers is what each of the two limits does.   *)
LEMMA LeastIsBound ==
  ASSUME NEW a \in Int, NEW b \in Int
  PROVE  Least(a, b) \in {a, b} /\ Least(a, b) <= a /\ Least(a, b) <= b
BY DEF Least

(* A step of the program keeps the invariant: its copy of count is refreshed *)
(* while audio_play can only have taken from count.                          *)
LEMMA ProgramKeeps == AudioInv /\ AudioMain => AudioInv'
<1> SUFFICES ASSUME AudioInv, AudioMain PROVE AudioInv'
  OBVIOUS
<1> USE AudioAssumption
<1>1. CASE AwaitRoom
  BY <1>1 DEF AwaitRoom, AudioInv, pVars, hVars
<1>2. CASE WriteSize
  <2>1. WriteLen \in Nat /\ nplay + WriteLen <= Samples
    BY <1>2, LeastIsBound DEF WriteSize, AudioInv, WriteLen, Least
  <2>2. nwrite' \in 0 .. SbufSize /\ nwrite' <= WriteLen /\ nwrite' <= SbufSize - count
    BY <1>2, <2>1 DEF WriteSize, AudioInv, Least
  <2> QED
    BY <1>2, <2>1, <2>2 DEF WriteSize, AudioInv, pVars, hVars
<1>3. CASE WriteCopy
  BY <1>3 DEF WriteCopy, AudioInv, pVars, hVars
<1>4. CASE WriteLoad
  BY <1>4 DEF WriteLoad, AudioInv, pVars, hVars
<1>5. CASE WriteStore
  BY <1>5 DEF WriteStore, AudioInv, pVars, hVars
<1>6. CASE Drained
  BY <1>6 DEF Drained, AudioInv, pVars, hVars
<1> QED
  BY <1>1, <1>2, <1>3, <1>4, <1>5, <1>6 DEF AudioMain

(* So does a step of audio_play or of the device.                          *)
LEMMA DeviceKeeps == AudioInv /\ AudioDevice => AudioInv'
<1> SUFFICES ASSUME AudioInv, AudioDevice PROVE AudioInv'
  OBVIOUS
<1> USE AudioAssumption
<1>1. CASE PlayCompare
  BY <1>1 DEF PlayCompare, AudioInv, wVars, hVars
<1>2. CASE PlaySize
  BY <1>2 DEF PlaySize, AudioInv, wVars, hVars
<1>3. CASE PlayCopy
  BY <1>3 DEF PlayCopy, AudioInv, wVars
<1>4. CASE PlayLoad
  BY <1>4 DEF PlayLoad, AudioInv, wVars, hVars
<1>5. CASE PlayStore
  BY <1>5 DEF PlayStore, AudioInv, wVars, hVars
<1>6. CASE DevicePlays
  <2>1. Least(count, Len0) \in Nat /\ Least(count, Len0) <= count
    BY <1>6 DEF AudioInv, Least
  <2> QED
    BY <1>6, <2>1 DEF DevicePlays, AudioInv, wVars, pVars
<1> QED
  BY <1>1, <1>2, <1>3, <1>4, <1>5, <1>6 DEF AudioDevice

-----------------------------------------------------------------------------
(* The sound buffer: the order of the samples.                             *)

(* One turn of a ring.                                                     *)
Wrap(x) == IF x < SbufSize THEN x ELSE x - SbufSize

(* Taking one turn off is the remainder where the ring does it.            *)
LEMMA WrapIsRemainder ==
  ASSUME NEW x \in 0 .. 2 * SbufSize - 1
  PROVE  x % SbufSize = Wrap(x) /\ Wrap(x) \in 0 .. SbufSize - 1
<1>1. CASE x < SbufSize
  BY <1>1, Sizes DEF Wrap
<1>2. CASE x >= SbufSize
  <2>1. x = SbufSize * 1 + (x - SbufSize) /\ x - SbufSize \in 0 .. SbufSize - 1
    BY <1>2, Sizes
  <2>2. (SbufSize * 1 + (x - SbufSize)) % SbufSize = x - SbufSize
    BY <2>1, Sizes
  <2> QED BY <1>2, <2>1, <2>2, Sizes DEF Wrap
<1> QED BY <1>1, <1>2, Sizes

(* What audio_play has taken and not yet counted, what the program has put *)
(* and not yet counted, and what is in the ring between the two.           *)
Taken == IF p_at \in {"load", "store"} THEN nread ELSE 0
Put == IF w_at \in {"load", "store"} THEN nwrite ELSE 0
Unheard == nplay + Put - heard

(* While no update was lost, count is what it should be, the head is       *)
(* Unheard slots behind the tail, and those slots hold the samples that    *)
(* come next.  What one thread has done to the ring and not yet to count   *)
(* is in Taken and Put; a count that another store has undone says nothing.*)
OrderInv ==
  /\ sb_head \in 0 .. SbufSize - 1 /\ sb_tail \in 0 .. SbufSize - 1
  /\ DOMAIN sbuf = 0 .. SbufSize - 1
  /\ heard \in Nat
  /\ lost \in BOOLEAN /\ overrun \in BOOLEAN /\ wrong \in BOOLEAN
  /\ ~ lost /\ ~ overrun =>
       /\ ~ wrong
       /\ count = nplay - heard + Taken
       /\ sb_head = Wrap(sb_tail + Unheard)
       /\ \A k \in 0 .. Unheard - 1 : sbuf[Wrap(sb_tail + k)] = heard + k + 1
       /\ w_at = "end" => nplay = Samples /\ count = 0

(* What the ring holds, between the two threads.                           *)
LEMMA Bounds ==
  ASSUME AudioInv, OrderInv, ~ lost, ~ overrun
  PROVE  /\ Taken \in Nat /\ Put \in Nat /\ Taken <= count
         /\ Unheard \in 0 .. SbufSize
         /\ Unheard = count - Taken + Put
         /\ heard \in Nat /\ heard <= nplay + Put
BY Sizes DEF AudioInv, OrderInv, Taken, Put, Unheard

(* Where a slot of the ring lies from the head on.                         *)
LEMMA FromHead ==
  ASSUME NEW t \in 0 .. SbufSize - 1, NEW u \in 0 .. SbufSize, NEW k \in 0 .. SbufSize - 1
  PROVE  (Wrap(t + k) + SbufSize - Wrap(t + u)) % SbufSize
            = IF k >= u THEN k - u ELSE k - u + SbufSize
<1> USE Sizes
<1> DEFINE x == Wrap(t + k) + SbufSize - Wrap(t + u)
<1>1. Wrap(t + k) \in 0 .. SbufSize - 1 /\ Wrap(t + u) \in 0 .. SbufSize - 1
  BY DEF Wrap
<1>2. x \in 0 .. 2 * SbufSize - 1 BY <1>1
<1>3. x % SbufSize = Wrap(x)
  <2> HIDE DEF x
  <2> QED BY <1>2, WrapIsRemainder
<1>4. Wrap(x) = IF k >= u THEN k - u ELSE k - u + SbufSize
  BY DEF Wrap
<1> QED BY <1>3, <1>4

(* A step that does not touch the ring keeps the order if it keeps the     *)
(* balance.                                                                *)
LEMMA RingUntouched ==
  ASSUME OrderInv, UNCHANGED <<sb_head, sb_tail, sbuf, heard, wrong, overrun>>,
         lost' \in BOOLEAN, lost => lost',
         ~ lost' /\ ~ overrun =>
           /\ Unheard' = Unheard
           /\ count' = nplay' - heard + Taken'
           /\ w_at' = "end" => nplay' = Samples /\ count' = 0
  PROVE  OrderInv'
<1>1. /\ sb_head' \in 0 .. SbufSize - 1 /\ sb_tail' \in 0 .. SbufSize - 1
      /\ DOMAIN sbuf' = 0 .. SbufSize - 1 /\ heard' \in Nat
      /\ lost' \in BOOLEAN /\ overrun' \in BOOLEAN /\ wrong' \in BOOLEAN
  BY DEF OrderInv
<1>2. ASSUME ~ lost', ~ overrun
      PROVE  /\ ~ wrong'
             /\ count' = nplay' - heard' + Taken'
             /\ sb_head' = Wrap(sb_tail' + Unheard')
             /\ \A k \in 0 .. Unheard' - 1 : sbuf'[Wrap(sb_tail' + k)] = heard' + k + 1
             /\ w_at' = "end" => nplay' = Samples /\ count' = 0
  BY <1>2 DEF OrderInv
<1> QED BY <1>1, <1>2 DEF OrderInv

(* The steps of the program that do not touch the ring.                    *)
LEMMA ProgramOrder ==
  ASSUME AudioInv, OrderInv, AwaitRoom \/ WriteSize \/ WriteLoad
  PROVE  OrderInv'
<1>1. /\ UNCHANGED <<sb_head, sb_tail, sbuf, heard, wrong, overrun, count, nplay, lost>>
      /\ Taken' = Taken
  BY DEF AwaitRoom, WriteSize, WriteLoad, pVars, hVars, Taken
<1>2. Put' = Put /\ w_at' # "end"
  BY DEF AwaitRoom, WriteSize, WriteLoad, Put
<1>3. lost' \in BOOLEAN /\ Unheard' = Unheard BY <1>1, <1>2 DEF OrderInv, Unheard
<1>4. ~ lost /\ ~ overrun => count' = nplay' - heard + Taken' BY <1>1 DEF OrderInv
<1> QED BY <1>1, <1>2, <1>3, <1>4, RingUntouched

(* The samples of a write go behind those that have not been heard: the    *)
(* limit the program has read leaves the latter alone.                     *)
LEMMA CopyOrder ==
  ASSUME AudioInv, OrderInv, WriteCopy
  PROVE  OrderInv'
<1> USE Sizes
<1>1. /\ w_at = "copy" /\ w_at' \in {"load", "store"}
      /\ UNCHANGED <<count, sb_tail, nwrite, nplay, p_at, nread, heard, wrong, lost, overrun>>
      /\ sb_head' = (sb_head + nwrite) % SbufSize
      /\ sbuf' = [i \in DOMAIN sbuf |->
                    LET k == (i + SbufSize - sb_head) % SbufSize IN
                      IF k < nwrite THEN nplay + k + 1 ELSE sbuf[i]]
  BY DEF WriteCopy, pVars, hVars
<1>2. /\ nwrite \in 0 .. SbufSize /\ nplay \in Nat
      /\ count + nwrite <= SbufSize
      /\ sb_head \in 0 .. SbufSize - 1 /\ sb_tail \in 0 .. SbufSize - 1
      /\ DOMAIN sbuf = 0 .. SbufSize - 1
  BY <1>1 DEF AudioInv, OrderInv
<1>3. sb_head' = Wrap(sb_head + nwrite) /\ sb_head' \in 0 .. SbufSize - 1
  <2>1. sb_head + nwrite \in 0 .. 2 * SbufSize - 1 BY <1>2
  <2> QED BY <1>1, <2>1, WrapIsRemainder
<1>4. DOMAIN sbuf' = 0 .. SbufSize - 1 BY <1>1, <1>2
<1>5. ASSUME ~ lost, ~ overrun
      PROVE  /\ ~ wrong' /\ count' = nplay' - heard' + Taken'
             /\ sb_head' = Wrap(sb_tail' + Unheard')
             /\ \A k \in 0 .. Unheard' - 1 : sbuf'[Wrap(sb_tail' + k)] = heard' + k + 1
             /\ w_at' # "end"
  <2>1. /\ Unheard \in 0 .. SbufSize /\ Unheard <= count /\ heard \in Nat
        /\ Unheard = nplay - heard /\ Unheard' = Unheard + nwrite /\ Taken' = Taken
        /\ Taken \in Nat /\ Unheard + nwrite <= SbufSize
    <3>1. /\ Unheard \in 0 .. SbufSize /\ Taken \in Nat /\ heard \in Nat
          /\ Unheard = count - Taken + Put /\ Taken <= count
      BY <1>5, Bounds
    <3>2. Put = 0 /\ Put' = nwrite BY <1>1 DEF Put
    <3>3. Taken' = Taken BY <1>1 DEF Taken
    <3>4. Unheard = nplay - heard BY <1>2, <3>1, <3>2 DEF Unheard
    <3>5. Unheard' = nplay + nwrite - heard BY <1>1, <3>2 DEF Unheard
    <3>6. count \in Nat BY DEF AudioInv
    <3>7. Unheard <= count BY <3>1, <3>2, <3>6
    <3> QED BY <1>2, <3>1, <3>3, <3>4, <3>5, <3>6, <3>7
  <2>2. /\ ~ wrong /\ count = nplay - heard + Taken
        /\ sb_head = Wrap(sb_tail + Unheard)
        /\ \A k \in 0 .. Unheard - 1 : sbuf[Wrap(sb_tail + k)] = heard + k + 1
    BY <1>5 DEF OrderInv
  <2>3. sb_head' = Wrap(sb_tail + Unheard + nwrite)
    BY <1>2, <1>3, <2>1, <2>2 DEF Wrap
  <2>4. ASSUME NEW k \in 0 .. Unheard + nwrite - 1
        PROVE  sbuf'[Wrap(sb_tail + k)] = heard + k + 1
    <3> DEFINE i == Wrap(sb_tail + k)
    <3>1. k \in 0 .. SbufSize - 1 /\ i \in 0 .. SbufSize - 1
      BY <1>2, <2>1 DEF Wrap
    <3>2. (i + SbufSize - sb_head) % SbufSize
            = IF k >= Unheard THEN k - Unheard ELSE k - Unheard + SbufSize
      BY <1>2, <2>1, <2>2, <3>1, FromHead
    <3>3. sbuf'[i] = LET j == (i + SbufSize - sb_head) % SbufSize IN
                       IF j < nwrite THEN nplay + j + 1 ELSE sbuf[i]
      BY <1>1, <1>2, <3>1
    <3>4. CASE k >= Unheard
      BY <1>2, <2>1, <3>2, <3>3, <3>4
    <3>5. CASE k < Unheard
      BY <1>2, <2>1, <2>2, <3>1, <3>2, <3>3, <3>5
    <3> QED BY <2>1, <3>1, <3>4, <3>5
  <2>5. sb_tail + Unheard' = sb_tail + Unheard + nwrite BY <1>2, <2>1
  <2>6. \A k \in 0 .. Unheard' - 1 : sbuf'[Wrap(sb_tail + k)] = heard + k + 1
    <3>1. Unheard' - 1 = Unheard + nwrite - 1 BY <1>2, <2>1
    <3> QED BY <2>4, <3>1
  <2> QED BY <1>1, <2>1, <2>2, <2>3, <2>5, <2>6
<1>6. /\ sb_tail' \in 0 .. SbufSize - 1 /\ heard' \in Nat
      /\ lost' \in BOOLEAN /\ overrun' \in BOOLEAN /\ wrong' \in BOOLEAN
  BY <1>1 DEF OrderInv
<1> QED BY <1>1, <1>3, <1>4, <1>5, <1>6 DEF OrderInv

(* An update of count that undoes none takes it to what it should be.      *)
LEMMA StoreOrder ==
  ASSUME AudioInv, OrderInv, WriteStore \/ PlayStore
  PROVE  OrderInv'
<1>1. /\ UNCHANGED <<sb_head, sb_tail, sbuf, heard, wrong, overrun>>
      /\ lost' \in BOOLEAN /\ (lost => lost')
  BY Zenon DEF WriteStore, PlayStore, pVars, wVars, hVars, OrderInv
<1>2. /\ nplay \in Nat /\ nwrite \in Nat /\ nread \in Nat /\ heard \in Nat
      /\ count \in Nat /\ w_count \in Nat /\ p_count \in Nat
  BY DEF AudioInv, OrderInv
<1>3. CASE WriteStore
  <2>1. ASSUME ~ lost', ~ overrun
        PROVE  Unheard' = Unheard /\ count' = nplay' - heard + Taken' /\ w_at' # "end"
    <3>1. ~ lost /\ w_count = count BY <1>3, <2>1 DEF WriteStore
    <3>2. count = nplay - heard + Taken BY <2>1, <3>1 DEF OrderInv
    <3>3. /\ count' = count + nwrite /\ nplay' = nplay + nwrite /\ Put = nwrite /\ Put' = 0
          /\ w_at' = "wait" /\ Taken' = Taken /\ heard' = heard
      BY <1>3, <3>1 DEF WriteStore, Put, Taken, pVars, hVars
    <3>4. Taken \in Nat BY <1>2 DEF Taken
    <3> QED BY <1>2, <3>2, <3>3, <3>4 DEF Unheard
  <2>2. ~ lost' /\ ~ overrun =>
          /\ Unheard' = Unheard
          /\ count' = nplay' - heard + Taken'
          /\ w_at' = "end" => nplay' = Samples /\ count' = 0
    BY <2>1
  <2> QED BY <1>1, <2>2, RingUntouched
<1>4. CASE PlayStore
  <2>1. ASSUME ~ lost', ~ overrun
        PROVE  /\ Unheard' = Unheard /\ count' = nplay' - heard + Taken'
               /\ w_at' = "end" => nplay' = Samples /\ count' = 0
    <3>1. ~ lost /\ p_count = count BY <1>4, <2>1 DEF PlayStore
    <3>2. /\ count = nplay - heard + Taken
          /\ w_at = "end" => nplay = Samples /\ count = 0
      BY <2>1, <3>1 DEF OrderInv
    <3>3. /\ count' = count - nread /\ nplay' = nplay /\ Put' = Put /\ w_at' = w_at
          /\ Taken = nread /\ Taken' = 0 /\ heard' = heard
      BY <1>4, <3>1 DEF PlayStore, Put, Taken, wVars, hVars
    <3>4. nread <= count BY <1>4, <3>1 DEF PlayStore, AudioInv
    <3>5. Unheard' = Unheard BY <3>3 DEF Unheard
    <3> QED BY <1>2, <3>2, <3>3, <3>4, <3>5
  <2>2. ~ lost' /\ ~ overrun =>
          /\ Unheard' = Unheard
          /\ count' = nplay' - heard + Taken'
          /\ w_at' = "end" => nplay' = Samples /\ count' = 0
    BY <2>1
  <2> QED BY <1>1, <2>2, RingUntouched
<1> QED BY <1>3, <1>4

(* The end comes when nothing is left.                                     *)
LEMMA DrainedOrder ==
  ASSUME AudioInv, OrderInv, Drained
  PROVE  OrderInv'
<1>1. /\ UNCHANGED <<sb_head, sb_tail, sbuf, heard, wrong, overrun, count, nplay, lost>>
      /\ Taken' = Taken /\ Put' = Put /\ nplay = Samples /\ count = 0
  BY Sizes DEF Drained, pVars, hVars, Taken, Put, AudioInv
<1>2. lost' \in BOOLEAN /\ Unheard' = Unheard BY <1>1 DEF OrderInv, Unheard
<1>3. ~ lost /\ ~ overrun => count' = nplay' - heard + Taken' BY <1>1 DEF OrderInv
<1> QED BY <1>1, <1>2, <1>3, RingUntouched

(* The steps of audio_play that do not touch the ring.                     *)
LEMMA PlayerOrder ==
  ASSUME AudioInv, OrderInv, PlayCompare \/ PlaySize \/ PlayLoad
  PROVE  OrderInv'
<1>1. /\ UNCHANGED <<sb_head, sb_tail, sbuf, heard, wrong, overrun, count, nplay, lost, w_at>>
      /\ Put' = Put
  BY DEF PlayCompare, PlaySize, PlayLoad, wVars, hVars, Put
<1>2. Taken' = Taken
  BY DEF PlayCompare, PlaySize, PlayLoad, Taken
<1>3. lost' \in BOOLEAN /\ Unheard' = Unheard BY <1>1 DEF OrderInv, Unheard
<1>4. ~ lost /\ ~ overrun =>
        /\ count' = nplay' - heard + Taken'
        /\ w_at' = "end" => nplay' = Samples /\ count' = 0
  BY <1>1, <1>2 DEF OrderInv
<1> QED BY <1>1, <1>2, <1>3, <1>4, RingUntouched

(* The samples that are heard next are the ones that were written next.    *)
LEMMA HearOrder ==
  ASSUME AudioInv, OrderInv, NEW n \in Nat, n <= count, Taken = 0, Hear(n),
         sb_tail' = (sb_tail + n) % SbufSize, UNCHANGED <<lost, sbuf, nplay, w_at, nwrite>>,
         ~ lost, ~ overrun'
  PROVE  /\ ~ overrun /\ ~ wrong' /\ heard' = heard + n
         /\ n \in 0 .. SbufSize
         /\ sb_tail' = Wrap(sb_tail + n)
         /\ Wrap(sb_tail + Unheard) = Wrap(sb_tail' + Unheard')
         /\ \A k \in 0 .. Unheard' - 1 : sbuf'[Wrap(sb_tail' + k)] = heard' + k + 1
<1> USE Sizes
<1>1. ~ overrun /\ n <= Len0 /\ Least(n, Len0) = n
  <2>1. ~ overrun /\ ~ (n > Len0) BY Zenon DEF Hear
  <2> QED BY <2>1 DEF Least
<1>2. /\ Unheard \in 0 .. SbufSize /\ n <= Unheard /\ n \in 0 .. SbufSize
      /\ sb_tail \in 0 .. SbufSize - 1 /\ heard \in Nat /\ ~ wrong
      /\ \A k \in 0 .. Unheard - 1 : sbuf[Wrap(sb_tail + k)] = heard + k + 1
  <2>1. n <= Unheard BY <1>1, Bounds DEF AudioInv
  <2> QED BY <1>1, <2>1, Bounds DEF OrderInv
<1>3. \A k \in 0 .. SbufSize : (sb_tail + k) % SbufSize = Wrap(sb_tail + k)
  <2> SUFFICES ASSUME NEW k \in 0 .. SbufSize
               PROVE  (sb_tail + k) % SbufSize = Wrap(sb_tail + k)
    OBVIOUS
  <2>1. sb_tail + k \in 0 .. 2 * SbufSize - 1 BY <1>2
  <2> QED BY <2>1, WrapIsRemainder
<1>4. \A k \in 0 .. n - 1 : sbuf[(sb_tail + k) % SbufSize] = heard + k + 1
  <2> SUFFICES ASSUME NEW k \in 0 .. n - 1
               PROVE  sbuf[(sb_tail + k) % SbufSize] = heard + k + 1
    OBVIOUS
  <2>1. k \in 0 .. SbufSize /\ k \in 0 .. Unheard - 1 BY <1>2
  <2> QED BY <1>2, <1>3, <2>1
<1>5. heard' = heard + n /\ ~ wrong'
  BY <1>1, <1>2, <1>4 DEF Hear
<1>6. sb_tail' = Wrap(sb_tail + n) BY <1>2, <1>3
<1>7. Unheard' = Unheard - n
  BY <1>2, <1>5 DEF Unheard, Put, AudioInv
<1>8. Wrap(sb_tail + Unheard) = Wrap(sb_tail' + Unheard')
  <2> DEFINE u == Unheard
  <2>1. u \in 0 .. SbufSize /\ n \in 0 .. SbufSize /\ n <= u /\ sb_tail \in 0 .. SbufSize - 1
    BY <1>2
  <2>2. sb_tail' = Wrap(sb_tail + n) /\ Unheard' = u - n BY <1>6, <1>7
  <2> HIDE DEF u
  <2>3. Wrap(sb_tail + u) = Wrap(Wrap(sb_tail + n) + (u - n)) BY <2>1 DEF Wrap
  <2> QED BY <2>2, <2>3 DEF u
<1>9. ASSUME NEW k \in 0 .. Unheard' - 1
      PROVE  sbuf'[Wrap(sb_tail' + k)] = heard' + k + 1
  <2>1. n + k \in 0 .. Unheard - 1 BY <1>2, <1>7
  <2>2. Wrap(sb_tail' + k) = Wrap(sb_tail + (n + k))
    BY <1>2, <1>6, <2>1 DEF Wrap
  <2>3. sbuf[Wrap(sb_tail + (n + k))] = heard + (n + k) + 1
    BY <1>2, <2>1
  <2> QED BY <1>2, <1>5, <2>1, <2>2, <2>3
<1> QED BY <1>1, <1>2, <1>5, <1>6, <1>8, <1>9

(* Whatever happens to the order, these keep their types.                  *)
LEMMA HearTypes ==
  ASSUME AudioInv, OrderInv, NEW n \in Nat, Hear(n), sb_tail' = (sb_tail + n) % SbufSize
  PROVE  /\ sb_tail' \in 0 .. SbufSize - 1 /\ heard' \in Nat
         /\ overrun' \in BOOLEAN /\ wrong' \in BOOLEAN
<1>1. sb_tail + n \in Int /\ SbufSize \in Nat \ {0} BY AudioAssumption DEF OrderInv
<1>2. sb_tail' \in 0 .. SbufSize - 1 BY <1>1, DivMod
<1>3. heard' \in Nat BY AudioAssumption DEF Hear, Least, OrderInv
<1>4. overrun' \in BOOLEAN /\ wrong' \in BOOLEAN BY Zenon DEF Hear
<1> QED BY <1>2, <1>3, <1>4

(* What audio_play copies is what comes next.                              *)
LEMMA PlayCopyOrder ==
  ASSUME AudioInv, OrderInv, PlayCopy
  PROVE  OrderInv'
<1> USE Sizes
<1>1. /\ Hear(nread) /\ sb_tail' = (sb_tail + nread) % SbufSize
      /\ p_at = "copy" /\ p_at' = "load"
      /\ UNCHANGED <<count, sb_head, sbuf, w_at, nwrite, nplay, nread, lost>>
  BY DEF PlayCopy, wVars
<1>2. nread \in Nat /\ nread <= count /\ Taken = 0 /\ Taken' = nread
  BY <1>1 DEF AudioInv, Taken
<1>3. /\ sb_tail' \in 0 .. SbufSize - 1 /\ heard' \in Nat
      /\ overrun' \in BOOLEAN /\ wrong' \in BOOLEAN
  BY <1>1, <1>2, HearTypes
<1>4. ASSUME ~ lost, ~ overrun'
      PROVE  /\ ~ wrong'
             /\ count' = nplay' - heard' + Taken'
             /\ sb_head' = Wrap(sb_tail' + Unheard')
             /\ \A k \in 0 .. Unheard' - 1 : sbuf'[Wrap(sb_tail' + k)] = heard' + k + 1
             /\ w_at' = "end" => nplay' = Samples /\ count' = 0
  <2>1. /\ ~ overrun /\ ~ wrong' /\ heard' = heard + nread
        /\ Wrap(sb_tail + Unheard) = Wrap(sb_tail' + Unheard')
        /\ \A k \in 0 .. Unheard' - 1 : sbuf'[Wrap(sb_tail' + k)] = heard' + k + 1
    BY <1>1, <1>2, <1>4, HearOrder
  <2>2. /\ sb_head = Wrap(sb_tail + Unheard) /\ count = nplay - heard + Taken
        /\ w_at = "end" => nplay = Samples /\ count = 0
    BY <1>4, <2>1 DEF OrderInv
  <2>3. count' = nplay' - heard' + Taken'
    BY <1>1, <1>2, <2>1, <2>2 DEF AudioInv, OrderInv
  <2> QED BY <1>1, <2>1, <2>2, <2>3
<1> QED BY <1>1, <1>3, <1>4 DEF OrderInv

(* So is what the device of nemu takes.                                    *)
LEMMA DeviceOrder ==
  ASSUME AudioInv, OrderInv, DevicePlays
  PROVE  OrderInv'
<1> USE Sizes
<1> DEFINE n == Least(count, Len0)
<1>1. /\ Hear(n) /\ sb_tail' = (sb_tail + n) % SbufSize /\ count' = count - n /\ port = "nemu"
      /\ count > 0
      /\ UNCHANGED <<sb_head, sbuf, w_at, nwrite, nplay, p_at, nread, lost>>
  BY DEF DevicePlays, wVars, pVars
<1>2. n \in Nat /\ n <= count /\ Taken = 0 /\ Taken' = 0
  BY <1>1 DEF AudioInv, Taken, Least
<1> HIDE DEF n
<1>3. /\ sb_tail' \in 0 .. SbufSize - 1 /\ heard' \in Nat
      /\ overrun' \in BOOLEAN /\ wrong' \in BOOLEAN
  BY <1>1, <1>2, HearTypes
<1>4. ASSUME ~ lost, ~ overrun'
      PROVE  /\ ~ wrong'
             /\ count' = nplay' - heard' + Taken'
             /\ sb_head' = Wrap(sb_tail' + Unheard')
             /\ \A k \in 0 .. Unheard' - 1 : sbuf'[Wrap(sb_tail' + k)] = heard' + k + 1
             /\ w_at' # "end"
  <2>1. /\ ~ overrun /\ ~ wrong' /\ heard' = heard + n
        /\ Wrap(sb_tail + Unheard) = Wrap(sb_tail' + Unheard')
        /\ \A k \in 0 .. Unheard' - 1 : sbuf'[Wrap(sb_tail' + k)] = heard' + k + 1
    BY <1>1, <1>2, <1>4, HearOrder
  <2>2. /\ sb_head = Wrap(sb_tail + Unheard) /\ count = nplay - heard + Taken
        /\ w_at = "end" => nplay = Samples /\ count = 0
    BY <1>4, <2>1 DEF OrderInv
  <2>3. count' = nplay' - heard' + Taken'
    BY <1>1, <1>2, <2>1, <2>2 DEF AudioInv, OrderInv
  <2> QED BY <1>1, <2>1, <2>2, <2>3
<1> QED BY <1>1, <1>3, <1>4 DEF OrderInv

(* Each step of the two threads keeps the samples in order.                *)
LEMMA OrderKept == AudioInv /\ OrderInv /\ (AudioMain \/ AudioDevice) => OrderInv'
BY ProgramOrder, CopyOrder, StoreOrder, DrainedOrder, PlayerOrder, PlayCopyOrder, DeviceOrder
   DEF AudioMain, AudioDevice

(* Both invariants hold in every state of the port.                        *)
THEOREM AudioInductive == NatSpec => [](AudioInv /\ OrderInv)
<1>1. NatInit => AudioInv /\ OrderInv
  <2> SUFFICES ASSUME AudioInit PROVE AudioInv /\ OrderInv
    BY DEF NatInit
  <2> USE Sizes
  <2>1. AudioInv BY DEF AudioInit, AudioInv
  <2>2. Taken = 0 /\ Put = 0 /\ Unheard = 0 BY DEF AudioInit, Taken, Put, Unheard
  <2>3. Wrap(sb_tail + Unheard) = 0 BY <2>2 DEF AudioInit, Wrap
  <2>4. /\ sb_head = 0 /\ sb_tail = 0 /\ DOMAIN sbuf = 0 .. SbufSize - 1 /\ heard = 0
        /\ count = 0 /\ nplay = 0 /\ w_at = "wait"
        /\ lost = FALSE /\ overrun = FALSE /\ wrong = FALSE
    BY DEF AudioInit
  <2>5. 0 \in 0 .. SbufSize - 1 /\ \A k \in 0 .. Unheard - 1 : FALSE BY <2>2
  <2>6. /\ sb_head \in 0 .. SbufSize - 1 /\ sb_tail \in 0 .. SbufSize - 1 /\ heard \in Nat
        /\ lost \in BOOLEAN /\ overrun \in BOOLEAN /\ wrong \in BOOLEAN
    BY <2>4, <2>5
  <2>7. /\ ~ wrong /\ count = nplay - heard + Taken /\ sb_head = Wrap(sb_tail + Unheard)
        /\ w_at # "end"
    BY <2>2, <2>3, <2>4
  <2> QED BY <2>1, <2>4, <2>5, <2>6, <2>7 DEF OrderInv
<1>2. AudioInv /\ OrderInv /\ [NatNext]_natVars => (AudioInv /\ OrderInv)'
  <2> SUFFICES ASSUME AudioInv, OrderInv, [NatNext]_natVars PROVE AudioInv' /\ OrderInv'
    OBVIOUS
  <2>1. AudioMain \/ AudioDevice \/ UNCHANGED audioVars
    BY DEF NatNext, AudioProgram, AudioThread, Keyboard, Memory, natVars
  <2>2. CASE UNCHANGED audioVars
    <3>1. AudioInv' BY <2>2 DEF audioVars, AudioInv
    <3>2. Taken' = Taken /\ Put' = Put /\ Unheard' = Unheard
      BY <2>2 DEF audioVars, Taken, Put, Unheard
    <3>3. OrderInv' BY <2>2, <3>2 DEF audioVars, OrderInv
    <3> QED BY <3>1, <3>3
  <2> QED BY <2>1, <2>2, ProgramKeeps, DeviceKeeps, OrderKept
<1> QED BY <1>1, <1>2, PTL DEF NatSpec

(* Whatever the two threads do to each other's updates of count, it stays  *)
(* a number of bytes of the buffer, and so do the lengths taken from it.   *)
THEOREM CountStaysInRange == NatSpec => []AudioCountInRange
<1>1. AudioInv => AudioCountInRange
  BY DEF AudioInv, AudioCountInRange
<1> QED
  BY <1>1, AudioInductive, PTL

(* Samples are heard in order, each once, and all of them by the end of    *)
(* the program, unless an update of count was lost or audio_play wrote     *)
(* behind its stream.                                                      *)
THEOREM SamplesInOrder == NatSpec => []AudioInOrder
<1>1. AudioInv /\ OrderInv => AudioInOrder
  <2> SUFFICES ASSUME AudioInv, OrderInv, ~ lost, ~ overrun
               PROVE  ~ wrong /\ (w_at = "end" => heard = Samples)
    BY DEF AudioInOrder
  <2>1. ~ wrong BY DEF OrderInv
  <2>2. ASSUME w_at = "end" PROVE heard = Samples
    <3>1. nplay = Samples /\ count = 0 /\ count = nplay - heard + Taken
      BY <2>2 DEF OrderInv
    <3>2. Taken = 0 /\ heard \in Nat BY <3>1, Bounds DEF AudioInv
    <3> QED BY <3>1, <3>2, Sizes
  <2> QED BY <2>1, <2>2
<1> QED
  BY <1>1, AudioInductive, PTL

-----------------------------------------------------------------------------
(* The key queue.                                                          *)

(* Each slot holds the latest event that was put there, if any; the two    *)
(* indices follow from the numbers of the last events.                     *)
KeyInv ==
  /\ pressed \in Nat /\ got \in 0 .. pressed
  /\ key_r = pressed % KEY_QUEUE_LEN /\ key_f = got % KEY_QUEUE_LEN
  /\ key_queue \in [0 .. KEY_QUEUE_LEN - 1 -> Nat]
  /\ \A i \in 0 .. KEY_QUEUE_LEN - 1 :
       \/ key_queue[i] = 0 /\ pressed <= i
       \/ /\ key_queue[i] \in 1 .. pressed /\ key_queue[i] + KEY_QUEUE_LEN > pressed
          /\ (key_queue[i] - 1) % KEY_QUEUE_LEN = i
  /\ disorder = FALSE

(* An event goes to the slot after the last one: the others keep theirs,   *)
(* and the one that was there is a whole turn older.                       *)
LEMMA EnqueueKeeps == KeyInv /\ Enqueue => KeyInv'
<1> SUFFICES ASSUME KeyInv, Enqueue PROVE KeyInv'
  OBVIOUS
<1> DEFINE Q == KEY_QUEUE_LEN
<1> USE KeysAssumption
<1>0. Q \in Nat \ {0} /\ pressed \in Nat /\ got \in 0 .. pressed
  BY DEF KeyInv
<1>1. /\ pressed' = pressed + 1 /\ got' = got /\ key_f' = key_f /\ disorder' = disorder
      /\ key_queue' = [key_queue EXCEPT ![key_r] = pressed + 1]
      /\ key_r' = (key_r + 1) % Q
  BY DEF Enqueue
<1>2. key_r \in 0 .. Q - 1 /\ key_r = pressed % Q BY <1>0, DivMod DEF KeyInv
<1>3. key_r' = pressed' % Q
  <2>1. ((pressed % Q) + 1) % Q = (pressed + 1) % Q
    <3>1. pressed \in Int /\ 1 \in Int BY <1>0
    <3> QED BY <1>0, <3>1, Adding, Zenon
  <2> QED BY <1>1, <1>2, <2>1
<1>4. key_queue' \in [0 .. Q - 1 -> Nat] BY <1>0, <1>1 DEF KeyInv
<1>5. ASSUME NEW i \in 0 .. Q - 1
      PROVE  \/ key_queue'[i] = 0 /\ pressed' <= i
             \/ /\ key_queue'[i] \in 1 .. pressed' /\ key_queue'[i] + Q > pressed'
                /\ (key_queue'[i] - 1) % Q = i
  <2>1. CASE i = key_r
    <3>1. key_queue'[i] = pressed + 1 BY <1>1, <2>1 DEF KeyInv
    <3>2. (pressed + 1) - 1 = pressed BY <1>0
    <3> QED BY <1>0, <1>1, <1>2, <2>1, <3>1, <3>2
  <2>2. CASE i # key_r
    <3>1. key_queue'[i] = key_queue[i] BY <1>1, <2>2 DEF KeyInv
    <3>2. CASE key_queue[i] = 0 /\ pressed <= i
      <4>1. pressed # i BY <1>0, <1>2, <2>2, Small
      <4> QED BY <1>0, <1>1, <3>1, <3>2, <4>1
    <3>3. CASE /\ key_queue[i] \in 1 .. pressed /\ key_queue[i] + Q > pressed
               /\ (key_queue[i] - 1) % Q = i
      <4> DEFINE n == key_queue[i] - 1
      <4>1. n \in Int BY <3>3
      <4>2. n + Q # pressed
        <5> SUFFICES ASSUME n + Q = pressed PROVE pressed % Q = n % Q
          BY <1>2, <2>2, <3>3 DEF n
        <5>2. pressed = n + Q * 1 /\ pressed \in Int /\ 1 \in Int BY <1>0, <4>1
        <5> HIDE DEF n
        <5> QED BY <1>0, <4>1, <5>2, SameRemainder, Zenon
      <4> QED BY <1>0, <1>1, <3>1, <3>3, <4>2
    <3> QED BY <3>2, <3>3 DEF KeyInv
  <2> QED BY <2>1, <2>2
<1>6. /\ pressed' \in Nat /\ got' \in 0 .. pressed' /\ disorder' = FALSE
      /\ key_f' = got' % Q
  BY <1>0, <1>1 DEF KeyInv
<1> QED BY <1>3, <1>4, <1>5, <1>6, Zenon DEF KeyInv

(* The slot that is read holds the next event, or one whole turns later.   *)
LEMMA ReadKeyKeeps == KeyInv /\ ReadKey => KeyInv'
<1> SUFFICES ASSUME KeyInv, ReadKey PROVE KeyInv'
  OBVIOUS
<1> DEFINE Q == KEY_QUEUE_LEN
<1> USE KeysAssumption
<1>0. Q \in Nat \ {0} /\ pressed \in Nat /\ got \in 0 .. pressed
  BY DEF KeyInv
<1>1. CASE key_f = key_r
  BY <1>1 DEF ReadKey, KeyInv
<1>2. CASE key_f # key_r
  <2> DEFINE key == key_queue[key_f]
  <2>1. /\ got' = key /\ key_f' = (key_f + 1) % Q
        /\ disorder' = (disorder \/ ~ Fits(key))
        /\ UNCHANGED <<key_queue, key_r, pressed>>
    BY <1>2 DEF ReadKey
  <2>2. key_f \in 0 .. Q - 1 /\ key_f = got % Q BY <1>0, DivMod DEF KeyInv
  <2>3. got # pressed BY <1>2 DEF KeyInv
  <2>4. key # 0
    <3>1. got <= key_f => got = key_f BY <1>0, <2>2, Small
    <3>2. ~ (pressed <= key_f) BY <1>0, <2>2, <2>3, <3>1, Small
    <3> QED BY <2>2, <3>2 DEF KeyInv
  <2>5. key \in 1 .. pressed /\ key + Q > pressed /\ (key - 1) % Q = got % Q
    BY <2>2, <2>4 DEF KeyInv
  <2> HIDE DEF key
  <2>6. key - 1 >= got
    <3>1. key - 1 < got => (key - 1) + Q <= got
      <4>1. key - 1 \in Int /\ got \in Int BY <1>0, <2>5
      <4> QED BY <1>0, <2>5, <4>1, Apart
    <3> QED BY <1>0, <2>3, <2>5, <3>1
  <2>7. key % Q = (key_f + 1) % Q
    <3>1. (((key - 1) % Q) + 1) % Q = ((key - 1) + 1) % Q
      <4>1. key - 1 \in Int BY <2>5
      <4> QED BY <1>0, <4>1, Adding
    <3>2. (key - 1) + 1 = key BY <2>5
    <3> QED BY <2>2, <2>5, <3>1, <3>2
  <2>8. Fits(key)
    <3>1. PICK q \in Int : key - 1 = got + Q * q
      <4>1. key - 1 \in Int /\ got \in Int BY <1>0, <2>5
      <4> QED BY <1>0, <2>5, <4>1, SameRemainder
    <3>2. key - got = 1 + Q * q /\ key - got \in Int BY <1>0, <2>5, <3>1
    <3> DEFINE d == key - got
    <3>3. d % Q = 1 % Q
      <4>1. d = 1 + Q * q /\ d \in Int /\ 1 \in Int BY <3>2
      <4> HIDE DEF d
      <4> QED BY <1>0, <3>1, <4>1, SameRemainder, Zenon
    <3> QED BY <1>0, <2>5, <2>6, <3>3 DEF Fits
  <2>9. /\ pressed' \in Nat /\ got' \in 0 .. pressed'
        /\ disorder' = FALSE
    <3>1. pressed' \in Nat /\ got' \in 0 .. pressed' BY <1>0, <2>1, <2>5
    <3>2. disorder' = FALSE BY <2>1, <2>8, Zenon DEF KeyInv
    <3> QED BY <3>1, <3>2
  <2>10. key_f' = got' % Q BY <2>1, <2>7
  <2> QED BY <2>1, <2>9, <2>10 DEF KeyInv
<1> QED BY <1>1, <1>2

(* Keys are read in the order they were pressed; what is missing is a      *)
(* number of whole turns of the queue.                                     *)
THEOREM KeysArriveInOrder == NatSpec => []KeysInOrder
<1>1. NatInit => KeyInv
  BY KeysAssumption, Small DEF NatInit, KeyInit, KeyInv
<1>2. KeyInv /\ [NatNext]_natVars => KeyInv'
  <2>1. KeyInv /\ (Kill \/ Deliver \/ UNCHANGED keyVars) => KeyInv'
    BY DEF Kill, Deliver, keyVars, KeyInv
  <2>2. [NatNext]_natVars => KeyNext \/ UNCHANGED keyVars
    BY DEF NatNext, AudioProgram, AudioThread, Keyboard, Memory, natVars
  <2> QED BY <2>1, <2>2, EnqueueKeeps, ReadKeyKeeps DEF KeyNext
<1>3. KeyInv => KeysInOrder
  <2> SUFFICES ASSUME KeyInv PROVE KeysInOrder
    OBVIOUS
  <2> DEFINE Q == KEY_QUEUE_LEN
  <2>0. Q \in Nat \ {0} /\ pressed \in Int /\ got \in Int BY KeysAssumption DEF KeyInv
  <2> DEFINE x == key_r + Q - key_f
             y == pressed - got
             q == (pressed \div Q) - (got \div Q) - 1
  <2>1. x \in Int /\ y \in Int /\ q \in Int BY <2>0, DivMod DEF KeyInv
  <2>2. y = x + Q * q
    <3>1. pressed = Q * (pressed \div Q) + key_r /\ got = Q * (got \div Q) + key_f
      BY <2>0, DivMod DEF KeyInv
    <3>2. Q * q = Q * (pressed \div Q) - Q * (got \div Q) - Q
      <4>1. /\ (pressed \div Q) \in Int /\ (got \div Q) \in Int
            /\ (pressed \div Q) - (got \div Q) \in Int BY <2>0, DivMod
      <4> QED BY <2>0, <4>1, Distribute
    <3>3. Q * q \in Int /\ Q * (pressed \div Q) \in Int /\ Q * (got \div Q) \in Int
          /\ key_r \in Int /\ key_f \in Int
      BY <2>0, <2>1, DivMod DEF KeyInv
    <3> DEFINE u == Q * q
               v == Q * (pressed \div Q)
               w == Q * (got \div Q)
    <3>4. u \in Int /\ v \in Int /\ w \in Int /\ pressed = v + key_r /\ got = w + key_f
          /\ u = v - w - Q
      BY <3>1, <3>2, <3>3
    <3> HIDE DEF u, v, w, q
    <3>5. y = x + u BY <2>0, <3>3, <3>4
    <3> QED BY <3>5 DEF u
  <2> HIDE DEF x, y, q
  <2>3. y % Q = x % Q BY <2>0, <2>1, <2>2, SameRemainder
  <2> QED BY <2>3 DEF KeysInOrder, KeyInv, x, y
<1> QED BY <1>1, <1>2, <1>3, PTL DEF NatSpec
=============================================================================
