------------------------- MODULE AssertTimersProofs -------------------------
(***************************************************************************)
(* That the countdown of the PS2 never wraps, for every byte size and      *)
(* every value it may start from, however the main loop's accesses tear.   *)
(***************************************************************************)
EXTENDS AssertTimers, TLAPS

(* While the main loop tests the countdown, the bytes it has read are      *)
(* still there, unless the interrupt came: so what it finds to be running  *)
(* is running.                                                             *)
CheckInv ==
    pc = "c_check" =>
        \/ PS2Assert = ToWord(Reload)
        \/ \A h \in Halves \ todo : reg[h] = PS2Assert[h]

(* Then it is running until it has been written back, and the bytes it is  *)
(* read to are never both zero, since neither of Reload's is.              *)
LoadInv ==
    pc = "c_load" =>
        /\ PS2Assert # Zero
        /\ "hi" \notin todo => reg["hi"] <= Reload \div ByteSize
        /\ todo = {"lo"} => reg["hi"] # 0 \/ PS2Assert["lo"] # 0
        /\ todo = {"hi"} => reg["lo"] # 0 \/ PS2Assert["hi"] # 0
        /\ todo = {} => reg # Zero

(* So the decrement never wraps, and what is written is bounded too.        *)
StoreInv == pc = "c_store" => reg["hi"] <= Reload \div ByteSize

IInv == TypeOK /\ PS2AssertBounded /\ CheckInv /\ LoadInv /\ StoreInv
-----------------------------------------------------------------------------
(* A quotient and a remainder are unique.                                  *)
LEMMA DivisionLemma ==
    ASSUME NEW B \in Nat \ {0}, NEW q \in Nat, NEW r \in 0 .. B - 1
    PROVE  (q * B + r) \div B = q /\ (q * B + r) % B = r
<1> DEFINE n == q * B + r
           d == n \div B
           m == n % B
<1>1. q * B \in Nat /\ n \in Nat
  OBVIOUS
<1>2. d \in Nat /\ m \in 0 .. B - 1 /\ n = d * B + m
  BY <1>1
<1> HIDE DEF d, m
<1>3. ~(d >= q + 1)
  <2> SUFFICES ASSUME d >= q + 1 PROVE FALSE
    OBVIOUS
  <2>1. PICK k \in Nat : d = q + 1 + k
    <3>1. d - q - 1 \in Nat /\ d = q + 1 + (d - q - 1)
      BY <1>2
    <3> QED
      BY <3>1
  <2>2. d * B = q * B + B + k * B /\ k * B \in Nat
    BY <2>1
  <2> QED
    BY <1>1, <1>2, <2>2
<1>4. ~(q >= d + 1)
  <2> SUFFICES ASSUME q >= d + 1 PROVE FALSE
    OBVIOUS
  <2>1. PICK k \in Nat : q = d + 1 + k
    <3>1. q - d - 1 \in Nat /\ q = d + 1 + (q - d - 1)
      BY <1>2
    <3> QED
      BY <3>1
  <2>2. q * B = d * B + B + k * B /\ k * B \in Nat
    BY <1>2, <2>1
  <2> QED
    BY <1>1, <1>2, <2>2
<1>5. d = q
  BY <1>2, <1>3, <1>4
<1>6. m = r
  BY <1>1, <1>2, <1>5
<1> QED
  BY <1>5, <1>6 DEF d, m

(* A word that is not zero is decremented without a wrap: its high byte    *)
(* does not grow.                                                          *)
LEMMA DecrementLemma ==
    ASSUME NEW w \in Word, w # Zero
    PROVE  Decrement(w) \in Word /\ Decrement(w)["hi"] <= w["hi"]
<1> DEFINE B == ByteSize
           h == w["hi"]
           l == w["lo"]
           n == h * B + l - 1
<1>1. B \in Nat \ {0} /\ B >= 2 /\ h \in 0 .. B - 1 /\ l \in 0 .. B - 1
  BY ByteSizeAssumption DEF Word, Halves
<1>2. h # 0 \/ l # 0
  <2> SUFFICES ASSUME h = 0, l = 0 PROVE FALSE
    OBVIOUS
  <2>1. Zero = [half \in Halves |-> 0]
    BY <1>1 DEF Zero, ToWord
  <2>2. w = [half \in Halves |-> 0]
    BY DEF Word, Halves
  <2> QED
    BY <2>1, <2>2
<1>3. h * B \in Nat /\ (B - 1) * B = B * B - B /\ (h # 0 => (h - 1) * B = h * B - B /\ (h - 1) * B \in Nat)
  BY <1>1
<1>4. h * B <= (B - 1) * B
  BY <1>1
<1>5. n \in 0 .. B * B - 1
  BY <1>1, <1>2, <1>3, <1>4
<1>6. n \div B \in 0 .. h /\ n % B \in 0 .. B - 1
  <2>1. CASE l # 0
    <3>1. l - 1 \in 0 .. B - 1 /\ n = h * B + (l - 1)
      BY <1>1, <1>3, <2>1
    <3> HIDE DEF n, h, l, B
    <3> QED
      BY <1>1, <3>1, DivisionLemma
  <2>2. CASE l = 0
    <3>1. h - 1 \in Nat /\ B - 1 \in 0 .. B - 1 /\ n = (h - 1) * B + (B - 1)
      BY <1>1, <1>2, <1>3, <2>2
    <3> HIDE DEF n, h, l, B
    <3>2. n \div B = h - 1 /\ n % B = B - 1
      BY <1>1, <3>1, DivisionLemma
    <3> QED
      BY <1>1, <3>1, <3>2
  <2> QED
    BY <2>1, <2>2
<1>7. Num(w) - 1 = n
  BY <1>1, <1>3 DEF Num
<1>8. n % (B * B) = n
  BY <1>1, <1>5
<1>9. Decrement(w) = ToWord(n)
  BY <1>7, <1>8 DEF Decrement, WordSize
<1> HIDE DEF n
<1>10. ToWord(n)["hi"] = n \div B /\ ToWord(n)["lo"] = n % B
  BY DEF ToWord, Halves
<1>11. ToWord(n) \in Word
  BY <1>1, <1>6 DEF ToWord, Word, Halves
<1> QED
  BY <1>1, <1>6, <1>9, <1>10, <1>11

(* Any number below WordSize is the number of a word, so the decrement of  *)
(* a word is one whether it wraps or not.                                  *)
LEMMA DecrementType ==
    ASSUME NEW w \in Word
    PROVE  Decrement(w) \in Word
<1> DEFINE B == ByteSize
           n == (Num(w) - 1) % WordSize
<1>1. B \in Nat \ {0} /\ w["hi"] \in 0 .. B - 1 /\ w["lo"] \in 0 .. B - 1
  BY ByteSizeAssumption DEF Word, Halves
<1>2. w["hi"] * B \in Nat /\ B * B \in Nat \ {0}
  BY <1>1, ByteSizeAssumption
<1>3. n \in 0 .. B * B - 1
  BY <1>1, <1>2 DEF Num, WordSize
<1> HIDE DEF n
<1>4. n % B \in 0 .. B - 1 /\ n \div B \in Nat /\ n = (n \div B) * B + (n % B)
  BY <1>1, <1>3
<1> DEFINE q == n \div B
<1>5. q \in Nat /\ q * B <= B * B - 1
  BY <1>1, <1>2, <1>3, <1>4
<1> HIDE DEF q
<1>6. q <= B - 1
  <2> SUFFICES ASSUME q >= B PROVE FALSE
    BY <1>1, <1>5
  <2>1. PICK k \in Nat : q = B + k
    <3>1. q - B \in Nat /\ q = B + (q - B)
      BY <1>1, <1>5
    <3> QED
      BY <3>1
  <2>2. q * B = B * B + k * B /\ k * B \in Nat
    BY <1>1, <2>1
  <2> QED
    BY <1>2, <1>5, <2>2
<1>7. ToWord(n) \in Word
  BY <1>1, <1>4, <1>5, <1>6 DEF q, ToWord, Word, Halves
<1> QED
  BY <1>7 DEF n, Decrement

(* The two words the interrupt stores, and what makes a word zero.         *)
LEMMA WordLemma ==
    /\ ToWord(Reload) \in Word
    /\ ToWord(Reload)["hi"] = Reload \div ByteSize
    /\ ToWord(Reload)["hi"] # 0 /\ ToWord(Reload)["lo"] # 0
    /\ Zero \in Word
    /\ Zero["hi"] = 0
    /\ \A w \in Word : w # Zero <=> w["lo"] # 0 \/ w["hi"] # 0
<1>1. ByteSize \in Nat \ {0} /\ Reload \in Nat
  <2>1. ByteSize * ByteSize \in Nat
    BY ByteSizeAssumption
  <2> QED
    BY <2>1, ByteSizeAssumption, ReloadAssumption DEF WordSize
<1>2. Reload % ByteSize \in 0 .. ByteSize - 1 /\ Reload \div ByteSize \in 0 .. ByteSize - 1
  BY <1>1, ReloadAssumption
<1>3. Zero = [half \in Halves |-> 0]
  BY <1>1 DEF Zero, ToWord
<1>4. /\ ToWord(Reload)["hi"] = Reload \div ByteSize
      /\ ToWord(Reload)["lo"] = Reload % ByteSize
  BY DEF ToWord, Halves
<1>5. ToWord(Reload) \in Word
  BY <1>2 DEF ToWord, Word, Halves
<1>6. Zero \in Word
  BY <1>1, <1>3 DEF Word
<1>7. ASSUME NEW w \in Word, w["lo"] = 0, w["hi"] = 0
      PROVE  w = Zero
  BY <1>3, <1>7 DEF Word, Halves
<1>8. Zero["lo"] = 0 /\ Zero["hi"] = 0
  BY <1>3 DEF Halves
<1> QED
  BY <1>4, <1>5, <1>6, <1>7, <1>8, ReloadAssumption

LEMMA InitIInv == Init => IInv
<1> SUFFICES ASSUME Init PROVE IInv
  OBVIOUS
<1>1. TypeOK
  BY WordLemma DEF Init, TypeOK
<1>2. PS2AssertBounded
  <2>1. Reload \div ByteSize \in Nat
    BY ReloadAssumption
  <2> QED
    BY <2>1, WordLemma DEF Init, PS2AssertBounded
<1> QED
  BY <1>1, <1>2 DEF Init, IInv, CheckInv, LoadInv, StoreInv

(* The host writes a byte of a countdown before its report is processed.   *)
LEMMA StartProcessStep == IInv /\ StartProcess => IInv'
<1> SUFFICES ASSUME IInv, StartProcess PROVE IInv'
  OBVIOUS
<1>1. pc' = "p_check" /\ todo' = Halves /\ reg' = reg
  BY DEF StartProcess, Goto
<1>2. 0 \in 0 .. ByteSize - 1 /\ Reload \div ByteSize \in Nat
  BY ByteSizeAssumption, ReloadAssumption
<1>3. PS2Assert \in Word /\ LightsAssert \in Word /\ reg \in Word
  BY DEF IInv, TypeOK
<1>4. /\ PS2Assert' \in Word /\ LightsAssert' \in Word
      /\ PS2Assert'["hi"] <= Reload \div ByteSize
  <2>1. CASE UNCHANGED timers
    BY <1>3, <2>1 DEF timers, IInv, PS2AssertBounded
  <2>2. CASE \E h \in Halves : PS2Assert' = [PS2Assert EXCEPT ![h] = 0] /\ UNCHANGED LightsAssert
    <3>1. PICK h \in Halves : PS2Assert' = [PS2Assert EXCEPT ![h] = 0] /\ UNCHANGED LightsAssert
      BY <2>2
    <3>2. /\ PS2Assert' \in Word
          /\ PS2Assert'[h] = 0
          /\ \A g \in Halves : g # h => PS2Assert'[g] = PS2Assert[g]
      BY <1>2, <1>3, <3>1 DEF Word
    <3>3. "hi" \in Halves
      BY DEF Halves
    <3> QED
      BY <1>2, <1>3, <3>1, <3>2, <3>3 DEF IInv, PS2AssertBounded
  <2>3. CASE \E h \in Halves : LightsAssert' = [LightsAssert EXCEPT ![h] = 0] /\ UNCHANGED PS2Assert
    <3>1. LightsAssert' \in Word
      BY <1>2, <1>3, <2>3 DEF Word
    <3> QED
      BY <1>3, <2>3, <3>1 DEF IInv, PS2AssertBounded
  <2> QED
    BY <2>1, <2>2, <2>3 DEF StartProcess
<1>5. TypeOK'
  BY <1>1, <1>3, <1>4 DEF TypeOK, Reads, PS2Reads
<1> QED
  BY <1>1, <1>4, <1>5 DEF IInv, PS2AssertBounded, CheckInv, LoadInv, StoreInv

(* A byte is read: what the main loop holds stays consistent with memory.  *)
LEMMA ReadByteStep == IInv /\ ReadByte => IInv'
<1> SUFFICES ASSUME IInv, ReadByte PROVE IInv'
  OBVIOUS
<1>1. PICK h \in todo :
        /\ reg' = [reg EXCEPT ![h] = IF pc \in PS2Reads THEN PS2Assert[h] ELSE LightsAssert[h]]
        /\ todo' = todo \ {h}
  BY DEF ReadByte
<1>2. PS2Assert' = PS2Assert /\ LightsAssert' = LightsAssert /\ pc' = pc /\ pc \in Reads
  BY DEF ReadByte, timers
<1>3. /\ PS2Assert \in Word /\ LightsAssert \in Word /\ reg \in Word
      /\ todo \in SUBSET Halves /\ h \in Halves
  BY DEF IInv, TypeOK
<1>4. /\ reg' \in Word
      /\ pc \in PS2Reads => reg'[h] = PS2Assert[h]
      /\ \A g \in Halves : g # h => reg'[g] = reg[g]
  <2> DEFINE b == IF pc \in PS2Reads THEN PS2Assert[h] ELSE LightsAssert[h]
  <2>1. b \in 0 .. ByteSize - 1
    BY <1>3 DEF Word
  <2>2. reg' = [reg EXCEPT ![h] = b] /\ (pc \in PS2Reads => b = PS2Assert[h])
    BY <1>1
  <2> HIDE DEF b
  <2> QED
    BY <1>3, <2>1, <2>2 DEF Word
<1>5. TypeOK'
  BY <1>1, <1>2, <1>3, <1>4 DEF IInv, TypeOK
<1>6. PS2AssertBounded' /\ StoreInv'
  BY <1>2 DEF IInv, PS2AssertBounded, StoreInv, Reads, PS2Reads, LightsReads
<1>7. CheckInv'
  BY <1>1, <1>2, <1>3, <1>4 DEF IInv, CheckInv, PS2Reads
<1>8. LoadInv'
  <2> SUFFICES ASSUME pc = "c_load" PROVE LoadInv'
    BY <1>2 DEF LoadInv
  <2>1. reg'[h] = PS2Assert[h] /\ h \in {"lo", "hi"} /\ Halves = {"lo", "hi"}
    BY <1>3, <1>4 DEF PS2Reads, Halves
  <2>2. /\ PS2Assert # Zero
        /\ "hi" \notin todo => reg["hi"] <= Reload \div ByteSize
        /\ todo = {"lo"} => reg["hi"] # 0 \/ PS2Assert["lo"] # 0
        /\ todo = {"hi"} => reg["lo"] # 0 \/ PS2Assert["hi"] # 0
        /\ PS2Assert["hi"] <= Reload \div ByteSize
    BY DEF IInv, LoadInv, PS2AssertBounded
  <2>3. PS2Assert["lo"] # 0 \/ PS2Assert["hi"] # 0
    BY <1>3, <2>2, WordLemma
  <2>4. CASE h = "hi"
    <3>1. reg'["hi"] = PS2Assert["hi"] /\ reg'["lo"] = reg["lo"]
      BY <1>4, <2>1, <2>4
    <3>2. (todo = {"lo", "hi"} /\ todo' = {"lo"}) \/ (todo = {"hi"} /\ todo' = {})
      BY <1>1, <1>3, <2>1, <2>4
    <3>3. todo' = {} => reg' # Zero
      BY <1>4, <2>2, <3>1, <3>2, WordLemma
    <3> QED
      BY <1>2, <2>2, <2>3, <3>1, <3>2, <3>3 DEF LoadInv
  <2>5. CASE h = "lo"
    <3>1. reg'["lo"] = PS2Assert["lo"] /\ reg'["hi"] = reg["hi"]
      BY <1>4, <2>1, <2>5
    <3>2. (todo = {"lo", "hi"} /\ todo' = {"hi"}) \/ (todo = {"lo"} /\ todo' = {})
      BY <1>1, <1>3, <2>1, <2>5
    <3>3. todo' = {} => reg' # Zero
      BY <1>4, <2>2, <3>1, <3>2, WordLemma
    <3> QED
      BY <1>2, <2>2, <2>3, <3>1, <3>2, <3>3 DEF LoadInv
  <2> QED
    BY <2>1, <2>4, <2>5
<1> QED
  BY <1>5, <1>6, <1>7, <1>8 DEF IInv

(* What the main loop does with a word: a test that finds the countdown    *)
(* running is right, and its decrement does not wrap.                      *)
LEMMA DecideStep == IInv /\ Decide => IInv'
<1> SUFFICES ASSUME IInv, Decide PROVE IInv'
  OBVIOUS
<1>1. /\ PS2Assert' = PS2Assert /\ LightsAssert' = LightsAssert
      /\ pc \in Reads /\ todo = {}
  BY DEF Decide, timers
<1>2. /\ PS2Assert \in Word /\ LightsAssert \in Word /\ reg \in Word
      /\ PS2Assert["hi"] <= Reload \div ByteSize
  BY DEF IInv, TypeOK, PS2AssertBounded
<1>3. ASSUME reg' \in Word, pc' \in {"idle"} \cup Reads \cup Writes, todo' \in SUBSET Halves,
             LoadInv', StoreInv', pc' # "c_check"
      PROVE  IInv'
  BY <1>1, <1>2, <1>3 DEF IInv, TypeOK, PS2AssertBounded, CheckInv
<1>4. CASE pc = "p_check" /\ ~Asserted(reg) /\ Goto("p_set") /\ reg' = ToWord(Reload)
  BY <1>3, <1>4, WordLemma DEF Goto, LoadInv, StoreInv, Writes, LightsWrites
<1>5. CASE pc \in {"p_check", "l_check"} /\ Goto("idle") /\ reg' = reg
  BY <1>2, <1>3, <1>5 DEF Goto, LoadInv, StoreInv
<1>6. CASE pc = "c_check" /\ Asserted(reg) /\ Goto("c_load") /\ reg' = reg
  <2>1. PS2Assert # Zero
    <3>1. CASE PS2Assert = ToWord(Reload)
      BY <1>2, <3>1, WordLemma
    <3>2. CASE \A h \in Halves : reg[h] = PS2Assert[h]
      <4>1. reg["lo"] # 0 \/ reg["hi"] # 0
        BY <1>2, <1>6, WordLemma DEF Asserted
      <4>2. reg["lo"] = PS2Assert["lo"] /\ reg["hi"] = PS2Assert["hi"]
        BY <3>2 DEF Halves
      <4> QED
        BY <1>2, <4>1, <4>2, WordLemma
    <3> QED
      BY <1>1, <1>6, <3>1, <3>2 DEF IInv, CheckInv
  <2>2. pc' = "c_load" /\ todo' = {"lo", "hi"} /\ todo' \in SUBSET Halves
    BY <1>6 DEF Goto, Halves
  <2>3. LoadInv'
    BY <1>1, <2>1, <2>2 DEF LoadInv, Zero, ToWord
  <2> QED
    BY <1>2, <1>3, <1>6, <2>2, <2>3 DEF StoreInv, Reads, PS2Reads
<1>7. CASE pc = "c_check" /\ ~Asserted(reg) /\ Goto("l_check") /\ reg' = reg
  BY <1>2, <1>3, <1>7 DEF Goto, LoadInv, StoreInv, Reads, LightsReads
<1>8. CASE pc = "c_load" /\ Goto("c_store") /\ reg' = Decrement(reg)
  <2>1. reg # Zero /\ reg["hi"] <= Reload \div ByteSize
    BY <1>1, <1>8 DEF IInv, LoadInv
  <2>2. reg' \in Word /\ reg'["hi"] <= reg["hi"]
    BY <1>2, <1>8, <2>1, DecrementLemma
  <2>3. reg'["hi"] <= Reload \div ByteSize
    <3>1. /\ reg["hi"] \in 0 .. ByteSize - 1 /\ reg'["hi"] \in 0 .. ByteSize - 1
          /\ ByteSize \in Nat /\ Reload \div ByteSize \in Nat
      BY <1>2, <2>2, ByteSizeAssumption, ReloadAssumption DEF Word, Halves
    <3> QED
      BY <2>1, <2>2, <3>1
  <2>4. pc' = "c_store" /\ todo' \in SUBSET Halves
    BY <1>8 DEF Goto
  <2> QED
    BY <1>3, <2>2, <2>3, <2>4 DEF LoadInv, StoreInv, Writes, PS2Writes
<1>9. CASE pc = "l_check" /\ Asserted(reg) /\ Goto("l_load") /\ reg' = reg
  BY <1>2, <1>3, <1>9 DEF Goto, LoadInv, StoreInv, Reads, LightsReads
<1>10. CASE pc = "l_load" /\ Goto("l_store") /\ reg' = Decrement(reg)
  <2>1. reg' \in Word
    BY <1>2, <1>10, DecrementType
  <2> QED
    BY <1>3, <1>10, <2>1 DEF Goto, LoadInv, StoreInv, Writes, LightsWrites
<1> QED
  BY <1>4, <1>5, <1>6, <1>7, <1>8, <1>9, <1>10 DEF Decide

(* A byte is written: the countdown of the PS2 only by its own decrement.  *)
LEMMA WriteByteStep == IInv /\ WriteByte => IInv'
<1> SUFFICES ASSUME IInv, WriteByte PROVE IInv'
  OBVIOUS
<1>1. /\ pc' = pc /\ reg' = reg /\ pc \in {"c_store", "p_set", "l_store"}
  BY DEF WriteByte, Writes, PS2Writes, LightsWrites
<1>2. /\ PS2Assert \in Word /\ LightsAssert \in Word /\ reg \in Word
      /\ todo \in SUBSET Halves
      /\ PS2Assert["hi"] <= Reload \div ByteSize
      /\ pc = "c_store" => reg["hi"] <= Reload \div ByteSize
  BY DEF IInv, TypeOK, PS2AssertBounded, StoreInv
<1>3. PICK h \in todo :
        /\ IF pc \in PS2Writes
           THEN PS2Assert' = [PS2Assert EXCEPT ![h] = reg[h]] /\ UNCHANGED LightsAssert
           ELSE LightsAssert' = [LightsAssert EXCEPT ![h] = reg[h]] /\ UNCHANGED PS2Assert
        /\ todo' = todo \ {h}
  BY DEF WriteByte
<1>4. /\ PS2Assert' \in Word /\ LightsAssert' \in Word
      /\ PS2Assert'["hi"] <= Reload \div ByteSize
  <2>1. CASE pc = "c_store"
    <3>1. PS2Assert' = [PS2Assert EXCEPT ![h] = reg[h]] /\ UNCHANGED LightsAssert
      BY <1>3, <2>1 DEF PS2Writes
    <3> QED
      BY <1>2, <2>1, <3>1 DEF Word, Halves
  <2>2. CASE pc # "c_store"
    <3>1. LightsAssert' = [LightsAssert EXCEPT ![h] = reg[h]] /\ UNCHANGED PS2Assert
      BY <1>3, <2>2 DEF PS2Writes
    <3> QED
      BY <1>2, <3>1 DEF Word, Halves
  <2> QED
    BY <2>1, <2>2
<1>5. TypeOK'
  BY <1>1, <1>2, <1>3, <1>4 DEF IInv, TypeOK
<1> QED
  BY <1>1, <1>2, <1>4, <1>5 DEF IInv, PS2AssertBounded, CheckInv, LoadInv, StoreInv

(* The interrupt stores Reload: whatever the main loop has read by then is *)
(* as good as what it finds now.                                           *)
LEMMA InterruptStep == IInv /\ SPI_ISR => IInv'
<1> SUFFICES ASSUME IInv, SPI_ISR PROVE IInv'
  OBVIOUS
<1>1. /\ PS2Assert' = ToWord(Reload) /\ LightsAssert' = Zero
      /\ pc' = pc /\ reg' = reg /\ todo' = todo
  BY DEF SPI_ISR
<1>2. TypeOK'
  BY <1>1, WordLemma DEF IInv, TypeOK
<1>3. PS2AssertBounded'
  <2>1. Reload \div ByteSize \in Nat
    BY ReloadAssumption
  <2> QED
    BY <1>1, <2>1, WordLemma DEF PS2AssertBounded
<1>4. CheckInv' /\ StoreInv'
  BY <1>1 DEF IInv, CheckInv, StoreInv, ToWord
<1>5. LoadInv'
  <2>1. PS2Assert' # Zero /\ PS2Assert'["lo"] # 0 /\ PS2Assert'["hi"] # 0
    BY <1>1, WordLemma
  <2> QED
    BY <1>1, <2>1 DEF IInv, LoadInv, Zero, ToWord
<1> QED
  BY <1>2, <1>3, <1>4, <1>5 DEF IInv

(* IInv is inductive.                                                      *)
LEMMA Inductive == IInv /\ [Next]_vars => IInv'
<1> SUFFICES ASSUME IInv, [Next]_vars PROVE IInv'
  OBVIOUS
<1>1. CASE StartCreate
  <2>1. pc' = "c_check" /\ todo' = Halves /\ UNCHANGED <<PS2Assert, LightsAssert, reg>>
    BY <1>1 DEF StartCreate, Goto, timers
  <2> QED
    BY <2>1 DEF IInv, TypeOK, PS2AssertBounded, CheckInv, LoadInv, StoreInv, Reads, PS2Reads
<1>2. CASE Written
  <2>1. /\ UNCHANGED <<PS2Assert, LightsAssert, reg>>
        /\ pc' \in {"l_check", "idle"} /\ todo' \in SUBSET Halves
    BY <1>2 DEF Written, Goto, timers
  <2> QED
    BY <2>1 DEF IInv, TypeOK, PS2AssertBounded, CheckInv, LoadInv, StoreInv, Reads, LightsReads
<1>3. CASE UNCHANGED vars
  BY <1>3 DEF vars, IInv, TypeOK, PS2AssertBounded, CheckInv, LoadInv, StoreInv, Zero, ToWord
<1> QED
  BY <1>1, <1>2, <1>3, StartProcessStep, ReadByteStep, DecideStep, WriteByteStep, InterruptStep
     DEF Next, Main

(* IInv holds in every reachable state.                                    *)
THEOREM Invariance == Spec => []IInv
BY InitIInv, Inductive, PTL DEF Spec

(* The countdowns and the registers keep their widths.                     *)
THEOREM TypeCorrect == Spec => []TypeOK
<1>1. IInv => TypeOK
  BY DEF IInv
<1> QED
  BY <1>1, Invariance, PTL

(* The countdown of the PS2 never wraps: its high byte is never above that *)
(* of Reload, however the decrement of USBemani.c:231 is torn by the       *)
(* interrupt, for every byte size and every Reload with no zero byte.      *)
THEOREM CountdownNeverWraps == Spec => []PS2AssertBounded
<1>1. IInv => PS2AssertBounded
  BY DEF IInv
<1> QED
  BY <1>1, Invariance, PTL
-----------------------------------------------------------------------------
(* The steps behind PS2Drains and LightsDrain: with the sources silent, a  *)
(* countdown only goes down, and by one for every report.                  *)

\* The accesses of the main loop to the word w, which it tests at label
\* check and decrements at load and store, have met nobody else's.
Steady(w, check, load, store) ==
    /\ pc = check => \A h \in Halves \ todo : reg[h] = w[h]
    /\ pc = load => w # Zero /\ \A h \in Halves \ todo : reg[h] = w[h]
    /\ pc = store => \A h \in Halves \ todo : w[h] = reg[h]

\* What is left of a countdown, when what is being written is written.
Left(w, store) == IF pc = store THEN Num(reg) ELSE Num(w)

PS2Steady == Steady(PS2Assert, "c_check", "c_load", "c_store")
PS2Left   == Left(PS2Assert, "c_store")

LightsSteady ==
    /\ Steady(LightsAssert, "l_check", "l_load", "l_store")
    /\ pc \notin {"p_check", "p_set"}
LightsLeft == Left(LightsAssert, "l_store")

(* As long as no byte comes from the console, the PS2 countdown never goes *)
(* up, not even in the middle of a decrement or when the host writes one   *)
(* of its bytes, and each report it runs for counts it down.               *)
PS2CountsDown ==
    [][PS2Steady /\ ~SPI_ISR =>
           /\ PS2Steady'
           /\ PS2Left' <= PS2Left
           /\ pc = "c_load" /\ pc' = "c_store" => PS2Left' < PS2Left]_vars

(* The same of the lights' countdown, as long as the host sends no output  *)
(* report either.                                                          *)
LightsCountDown ==
    [][LightsSteady /\ ~SPI_ISR /\ ~StartProcess =>
           /\ LightsSteady'
           /\ LightsLeft' <= LightsLeft
           /\ pc = "l_load" /\ pc' = "l_store" => LightsLeft' < LightsLeft]_vars

(* The number of a word, and of a word whose bytes are those of a number.  *)
LEMMA NumLemma ==
    /\ \A w \in Word : Num(w) \in 0 .. ByteSize * ByteSize - 1
    /\ \A n \in 0 .. ByteSize * ByteSize - 1 : Num(ToWord(n)) = n
<1>1. ByteSize \in Nat \ {0}
  BY ByteSizeAssumption
<1>2. ASSUME NEW w \in Word
      PROVE  Num(w) \in 0 .. ByteSize * ByteSize - 1
  <2> DEFINE h == w["hi"]
             l == w["lo"]
  <2>1. h \in 0 .. ByteSize - 1 /\ l \in 0 .. ByteSize - 1
    BY DEF Word, Halves
  <2> HIDE DEF h, l
  <2>2. h * ByteSize <= (ByteSize - 1) * ByteSize /\ h * ByteSize \in Nat
    BY <1>1, <2>1
  <2>3. (ByteSize - 1) * ByteSize = ByteSize * ByteSize - ByteSize /\ ByteSize * ByteSize \in Nat
    BY <1>1
  <2>4. h * ByteSize + l \in 0 .. ByteSize * ByteSize - 1
    BY <1>1, <2>1, <2>2, <2>3
  <2> QED
    BY <2>4 DEF Num, h, l
<1>3. ASSUME NEW n \in 0 .. ByteSize * ByteSize - 1
      PROVE  Num(ToWord(n)) = n
  <2>1. ToWord(n)["hi"] = n \div ByteSize /\ ToWord(n)["lo"] = n % ByteSize
    BY DEF ToWord, Halves
  <2>2. ByteSize * ByteSize \in Nat
    BY <1>1
  <2>3. n \in Nat
    BY <2>2
  <2>4. n = (n \div ByteSize) * ByteSize + (n % ByteSize)
    BY <1>1, <2>3
  <2> QED
    BY <2>1, <2>4 DEF Num
<1> QED
  BY <1>2, <1>3

(* A word that is not zero is one less when it is decremented.             *)
LEMMA DecrementNum ==
    ASSUME NEW w \in Word, w # Zero
    PROVE  Num(Decrement(w)) = Num(w) - 1
<1>1. Num(w) \in 0 .. ByteSize * ByteSize - 1
  BY NumLemma
<1>2. ByteSize \in Nat \ {0} /\ ByteSize * ByteSize \in Nat \ {0}
  <2>1. ByteSize \in Nat \ {0}
    BY ByteSizeAssumption
  <2> QED
    BY <2>1
<1>3. Num(w) # 0
  <2>1. w["hi"] \in 0 .. ByteSize - 1 /\ w["lo"] \in 0 .. ByteSize - 1
    BY DEF Word, Halves
  <2>2. w["lo"] # 0 \/ w["hi"] # 0
    BY WordLemma
  <2>3. w["hi"] * ByteSize \in Nat /\ (w["hi"] # 0 => w["hi"] * ByteSize # 0)
    BY <1>2, <2>1
  <2> QED
    BY <2>1, <2>2, <2>3 DEF Num
<1>4. (Num(w) - 1) % WordSize = Num(w) - 1 /\ Num(w) - 1 \in 0 .. ByteSize * ByteSize - 1
  BY <1>1, <1>2, <1>3 DEF WordSize
<1> QED
  BY <1>4, NumLemma DEF Decrement

(* A word with a byte set to zero is no larger.                            *)
LEMMA ZeroedLemma ==
    ASSUME NEW w \in Word, NEW h \in Halves
    PROVE  Num([w EXCEPT ![h] = 0]) <= Num(w)
<1>1. ByteSize \in Nat /\ w["hi"] \in Nat /\ w["lo"] \in Nat
  BY ByteSizeAssumption DEF Word, Halves
<1>2. w["hi"] * ByteSize \in Nat /\ 0 * ByteSize = 0
  BY <1>1
<1>3. CASE h = "hi"
  <2>1. [w EXCEPT ![h] = 0]["hi"] = 0 /\ [w EXCEPT ![h] = 0]["lo"] = w["lo"]
    BY <1>3 DEF Word, Halves
  <2> QED
    BY <1>1, <1>2, <2>1 DEF Num
<1>4. CASE h = "lo"
  <2>1. [w EXCEPT ![h] = 0]["hi"] = w["hi"] /\ [w EXCEPT ![h] = 0]["lo"] = 0
    BY <1>4 DEF Word, Halves
  <2> QED
    BY <1>1, <1>2, <2>1 DEF Num
<1> QED
  BY <1>3, <1>4 DEF Halves

(* Two words with the same bytes are the same.                             *)
LEMMA SameWord ==
    ASSUME NEW v \in Word, NEW w \in Word, \A h \in Halves : v[h] = w[h]
    PROVE  v = w
BY DEF Word

(* What PS2CountsDown says of a step.                                      *)
LEMMA PS2Count ==
    ASSUME TypeOK, TypeOK', [Next]_vars, PS2Steady, ~SPI_ISR
    PROVE  /\ PS2Steady'
           /\ PS2Left' <= PS2Left
           /\ pc = "c_load" /\ pc' = "c_store" => PS2Left' < PS2Left
<1> USE DEF PS2Steady, Steady, PS2Left, Left
<1>1. /\ PS2Assert \in Word /\ reg \in Word /\ PS2Assert' \in Word /\ reg' \in Word
      /\ Num(PS2Assert) \in Nat /\ Num(reg) \in Nat
  <2>1. ByteSize * ByteSize \in Nat
    BY ByteSizeAssumption
  <2> QED
    BY <2>1, NumLemma DEF TypeOK
<1>2. CASE StartProcess
  <2>1. Num(PS2Assert') <= Num(PS2Assert)
    BY <1>1, <1>2, ZeroedLemma DEF StartProcess, timers
  <2>2. pc = "idle" /\ pc' = "p_check"
    BY <1>2 DEF StartProcess, Goto
  <2> QED
    BY <2>1, <2>2
<1>3. CASE StartCreate
  <2>1. pc = "idle" /\ pc' = "c_check" /\ todo' = Halves /\ UNCHANGED PS2Assert
    BY <1>3 DEF StartCreate, Goto, timers
  <2> QED
    BY <1>1, <2>1
<1>4. CASE ReadByte
  <2>1. PICK h \in todo :
            /\ reg' = [reg EXCEPT ![h] = IF pc \in PS2Reads THEN PS2Assert[h] ELSE LightsAssert[h]]
            /\ todo' = todo \ {h}
    BY <1>4 DEF ReadByte
  <2>2. pc \in Reads /\ UNCHANGED <<PS2Assert, pc>>
    BY <1>4 DEF ReadByte, timers
  <2>3. \A g \in Halves :
            reg'[g] = IF g = h THEN (IF pc \in PS2Reads THEN PS2Assert[h] ELSE LightsAssert[h])
                      ELSE reg[g]
    BY <1>1, <2>1 DEF Word
  <2>4. pc \notin {"c_store", "p_set"}
    BY <2>2 DEF Reads, PS2Reads, LightsReads
  <2>5. \A g \in Halves \ todo' : g = h \/ g \in Halves \ todo
    BY <2>1
  <2>6. PS2Steady'
    BY <2>2, <2>3, <2>4, <2>5 DEF PS2Reads
  <2> QED
    BY <1>1, <2>2, <2>4, <2>6
<1>5. CASE Decide
  <2>1. todo = {} /\ UNCHANGED PS2Assert
    BY <1>5 DEF Decide, timers
  <2>2. CASE pc = "c_check" /\ Asserted(reg) /\ Goto("c_load") /\ reg' = reg
    <3>1. reg = PS2Assert
      BY <1>1, <2>1, <2>2, SameWord
    <3>2. PS2Assert # Zero
      BY <2>2, <3>1 DEF Asserted
    <3> QED
      BY <1>1, <2>1, <2>2, <3>2 DEF Goto
  <2>3. CASE pc = "c_load" /\ Goto("c_store") /\ reg' = Decrement(reg)
    <3>1. reg = PS2Assert /\ PS2Assert # Zero
      BY <1>1, <2>1, <2>3, SameWord
    <3>2. Num(reg') = Num(PS2Assert) - 1
      BY <1>1, <2>3, <3>1, DecrementNum
    <3>3. todo' = Halves /\ pc' = "c_store" /\ pc = "c_load"
      BY <2>3 DEF Goto
    <3> QED
      BY <1>1, <3>2, <3>3
  <2>4. CASE /\ pc \notin {"c_load", "c_store"}
             /\ pc' \notin {"c_load", "c_store"}
             /\ pc' = "c_check" => todo' = Halves
    BY <1>1, <2>1, <2>4
  <2>5. CASE pc = "l_load" /\ Goto("l_store")
    BY <1>1, <2>1, <2>5 DEF Goto
  <2> QED
    BY <1>5, <2>2, <2>3, <2>4, <2>5 DEF Decide, Goto
<1>6. CASE WriteByte
  <2>1. PICK h \in todo :
            /\ IF pc \in PS2Writes
               THEN PS2Assert' = [PS2Assert EXCEPT ![h] = reg[h]] /\ UNCHANGED LightsAssert
               ELSE LightsAssert' = [LightsAssert EXCEPT ![h] = reg[h]] /\ UNCHANGED PS2Assert
            /\ todo' = todo \ {h}
    BY <1>6 DEF WriteByte
  <2>2. pc \in Writes /\ UNCHANGED <<pc, reg>>
    BY <1>6 DEF WriteByte
  <2>3. CASE pc = "c_store"
    <3>1. PS2Assert' = [PS2Assert EXCEPT ![h] = reg[h]]
      BY <2>1, <2>3 DEF PS2Writes
    <3>2. \A g \in Halves \ todo' : PS2Assert'[g] = reg[g]
      BY <1>1, <2>1, <2>3, <3>1 DEF Word
    <3> QED
      BY <1>1, <2>2, <2>3, <3>2
  <2>4. CASE pc # "c_store"
    <3>1. UNCHANGED PS2Assert
      BY <2>1, <2>2, <2>4 DEF Writes, PS2Writes, LightsWrites
    <3> QED
      BY <1>1, <2>2, <2>4, <3>1 DEF Writes, PS2Writes, LightsWrites
  <2> QED
    BY <2>3, <2>4
<1>7. CASE Written
  <2>1. todo = {} /\ UNCHANGED <<PS2Assert, reg>> /\ pc \in Writes
    BY <1>7 DEF Written, timers
  <2>2. pc' \in {"idle", "l_check"} /\ (pc' = "l_check" => todo' = Halves)
    BY <1>7 DEF Written, Goto
  <2>3. pc = "c_store" => reg = PS2Assert
    BY <1>1, <2>1, SameWord
  <2> QED
    BY <1>1, <2>1, <2>2, <2>3 DEF Writes, PS2Writes, LightsWrites
<1>8. CASE UNCHANGED vars
  BY <1>1, <1>8 DEF vars
<1> QED
  BY <1>2, <1>3, <1>4, <1>5, <1>6, <1>7, <1>8 DEF Next, Main

(* The countdown of the PS2 ends (USBemani.c:231-236) as far as safety     *)
(* goes, for every byte size and start: its torn accesses never let it go  *)
(* up by themselves.                                                       *)
THEOREM PS2OnlyCountsDown == Spec => PS2CountsDown
<1>1. TypeOK /\ TypeOK' /\ [Next]_vars =>
        [PS2Steady /\ ~SPI_ISR =>
           /\ PS2Steady'
           /\ PS2Left' <= PS2Left
           /\ pc = "c_load" /\ pc' = "c_store" => PS2Left' < PS2Left]_vars
  BY PS2Count
<1> QED
  BY <1>1, TypeCorrect, PTL DEF Spec, PS2CountsDown

(* What LightsCountDown says of a step.                                    *)
LEMMA LightsCount ==
    ASSUME TypeOK, TypeOK', [Next]_vars, LightsSteady, ~SPI_ISR, ~StartProcess
    PROVE  /\ LightsSteady'
           /\ LightsLeft' <= LightsLeft
           /\ pc = "l_load" /\ pc' = "l_store" => LightsLeft' < LightsLeft
<1> USE DEF LightsSteady, Steady, LightsLeft, Left
<1>1. /\ LightsAssert \in Word /\ reg \in Word /\ LightsAssert' \in Word /\ reg' \in Word
      /\ Num(LightsAssert) \in Nat /\ Num(reg) \in Nat
  <2>1. ByteSize * ByteSize \in Nat
    BY ByteSizeAssumption
  <2> QED
    BY <2>1, NumLemma DEF TypeOK
<1>2. CASE StartProcess
  BY <1>2
<1>3. CASE StartCreate
  <2>1. pc = "idle" /\ pc' = "c_check" /\ todo' = Halves /\ UNCHANGED LightsAssert
    BY <1>3 DEF StartCreate, Goto, timers
  <2> QED
    BY <1>1, <2>1
<1>4. CASE ReadByte
  <2>1. PICK h \in todo :
            /\ reg' = [reg EXCEPT ![h] = IF pc \in PS2Reads THEN PS2Assert[h] ELSE LightsAssert[h]]
            /\ todo' = todo \ {h}
    BY <1>4 DEF ReadByte
  <2>2. pc \in Reads /\ UNCHANGED <<LightsAssert, pc>>
    BY <1>4 DEF ReadByte, timers
  <2>3. \A g \in Halves :
            reg'[g] = IF g = h THEN (IF pc \in PS2Reads THEN PS2Assert[h] ELSE LightsAssert[h])
                      ELSE reg[g]
    BY <1>1, <2>1 DEF Word
  <2>4. pc \notin {"l_store", "p_set"}
    BY <2>2 DEF Reads, PS2Reads, LightsReads
  <2>5. \A g \in Halves \ todo' : g = h \/ g \in Halves \ todo
    BY <2>1
  <2>6. LightsSteady'
    BY <2>2, <2>3, <2>4, <2>5 DEF PS2Reads
  <2> QED
    BY <1>1, <2>2, <2>4, <2>6
<1>5. CASE Decide
  <2>1. todo = {} /\ UNCHANGED LightsAssert
    BY <1>5 DEF Decide, timers
  <2>2. CASE pc = "l_check" /\ Asserted(reg) /\ Goto("l_load") /\ reg' = reg
    <3>1. reg = LightsAssert
      BY <1>1, <2>1, <2>2, SameWord
    <3>2. LightsAssert # Zero
      BY <2>2, <3>1 DEF Asserted
    <3> QED
      BY <1>1, <2>1, <2>2, <3>2 DEF Goto
  <2>3. CASE pc = "l_load" /\ Goto("l_store") /\ reg' = Decrement(reg)
    <3>1. reg = LightsAssert /\ LightsAssert # Zero
      BY <1>1, <2>1, <2>3, SameWord
    <3>2. Num(reg') = Num(LightsAssert) - 1
      BY <1>1, <2>3, <3>1, DecrementNum
    <3>3. todo' = Halves /\ pc' = "l_store" /\ pc = "l_load"
      BY <2>3 DEF Goto
    <3> QED
      BY <1>1, <3>2, <3>3
  <2>4. CASE /\ pc \notin {"l_load", "l_store"}
             /\ pc' \notin {"l_load", "l_store", "p_check", "p_set"}
             /\ pc' = "l_check" => todo' = Halves
    BY <1>1, <2>1, <2>4
  <2>5. CASE pc = "c_load" /\ Goto("c_store")
    BY <1>1, <2>1, <2>5 DEF Goto
  <2> QED
    BY <1>5, <2>2, <2>3, <2>4, <2>5 DEF Decide, Goto
<1>6. CASE WriteByte
  <2>1. PICK h \in todo :
            /\ IF pc \in PS2Writes
               THEN PS2Assert' = [PS2Assert EXCEPT ![h] = reg[h]] /\ UNCHANGED LightsAssert
               ELSE LightsAssert' = [LightsAssert EXCEPT ![h] = reg[h]] /\ UNCHANGED PS2Assert
            /\ todo' = todo \ {h}
    BY <1>6 DEF WriteByte
  <2>2. pc \in Writes /\ UNCHANGED <<pc, reg>>
    BY <1>6 DEF WriteByte
  <2>3. CASE pc = "l_store"
    <3>1. LightsAssert' = [LightsAssert EXCEPT ![h] = reg[h]]
      BY <2>1, <2>3 DEF PS2Writes
    <3>2. \A g \in Halves \ todo' : LightsAssert'[g] = reg[g]
      BY <1>1, <2>1, <2>3, <3>1 DEF Word
    <3> QED
      BY <1>1, <2>2, <2>3, <3>2
  <2>4. CASE pc # "l_store"
    <3>1. UNCHANGED LightsAssert
      BY <2>1, <2>2, <2>4 DEF Writes, PS2Writes, LightsWrites
    <3> QED
      BY <1>1, <2>2, <2>4, <3>1 DEF Writes, PS2Writes, LightsWrites
  <2> QED
    BY <2>3, <2>4
<1>7. CASE Written
  <2>1. todo = {} /\ UNCHANGED <<LightsAssert, reg>> /\ pc \in Writes
    BY <1>7 DEF Written, timers
  <2>2. pc' \in {"idle", "l_check"} /\ (pc' = "l_check" => todo' = Halves)
    BY <1>7 DEF Written, Goto
  <2>3. pc = "l_store" => reg = LightsAssert
    BY <1>1, <2>1, SameWord
  <2> QED
    BY <1>1, <2>1, <2>2, <2>3 DEF Writes, PS2Writes, LightsWrites
<1>8. CASE UNCHANGED vars
  BY <1>1, <1>8 DEF vars
<1> QED
  BY <1>2, <1>3, <1>4, <1>5, <1>6, <1>7, <1>8 DEF Next, Main

(* And so does the countdown of the lights (USBemani.c:242-243), also from *)
(* the largest value it can wrap to.                                       *)
THEOREM LightsOnlyCountDown == Spec => LightsCountDown
<1>1. TypeOK /\ TypeOK' /\ [Next]_vars =>
        [LightsSteady /\ ~SPI_ISR /\ ~StartProcess =>
           /\ LightsSteady'
           /\ LightsLeft' <= LightsLeft
           /\ pc = "l_load" /\ pc' = "l_store" => LightsLeft' < LightsLeft]_vars
  BY LightsCount
<1> QED
  BY <1>1, TypeCorrect, PTL DEF Spec, LightsCountDown
=============================================================================
