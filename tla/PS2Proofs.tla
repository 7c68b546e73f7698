------------------------------ MODULE PS2Proofs ------------------------------
(***************************************************************************)
(* That polls are answered in order, for every width of PS2_State and      *)
(* whatever bytes the memory card's frames hold.                           *)
(***************************************************************************)
EXTENDS PS2, TLAPS

\* What a console may have sent as byte n of a poll.
SentBytes(n) == IF n = 1 THEN {"01"} ELSE IF n = 2 THEN {"42", "43"} ELSE {"00"}

(* Within a poll, the interrupt's place is the console's: one behind while *)
(* a byte waits to be served, and then SPDR holds the reply to the next.   *)
PollInv ==
    frame = "poll" =>
        /\ sent \in 1..5
        /\ Len(heard) = sent
        /\ \A i \in 2..5 : i <= sent => heard[i].kind = Expected[i]
        /\ rx \in SentBytes(sent)
        /\ spif => /\ ~acked
                   /\ sent # 1 => PS2_State = sent - 1
        /\ ~spif => /\ PS2_State = sent
                    /\ acked <=> rx # "43"
                    /\ sent < 5 /\ acked => tx.kind = Expected[sent + 1]

(* What PS2_Data holds is from the last scan, or the one before it until   *)
(* it has been stored; no reply is from a later one.                       *)
ScanInv ==
    /\ \A half \in {"lo", "hi"} :
          PS2_Data[half] = IF half \in unstored THEN scan - 1 ELSE scan
    /\ unstored # {} => scan >= 1
    /\ tx.scan <= scan
    /\ frame = "poll" =>
        /\ sent >= 4 => heard[4].scan <= scan
        /\ sent = 4 /\ ~spif => tx.scan >= heard[4].scan - 1
        /\ sent = 5 => heard[5].scan >= heard[4].scan - 1

(* PS2_State counts the bytes since the last 01 for as long as it can.      *)
SinceInv == since < StateSize - 1 => PS2_State = since + 1

IInv == TypeOK /\ PollInv /\ ScanInv /\ SinceInv
-----------------------------------------------------------------------------
LEMMA FixedLemma ==
    ASSUME NEW kind \in Kinds
    PROVE  Fixed(kind) \in Reply /\ Fixed(kind).kind = kind /\ Fixed(kind).scan = 0
BY DEF Fixed, Reply

(* The replies of a frame, by the state they are made in.                  *)
LEMMA AnswerLemma ==
    ASSUME NEW s \in Nat, NEW b, PS2_Data \in [{"lo", "hi"} -> Nat]
    PROVE  /\ Answer(s, b) \in Reply
           /\ s = 0 => Answer(s, b).kind = "41"
           /\ s = 1 /\ b = "42" => Answer(s, b).kind = "5A"
           /\ s = 2 => Answer(s, b).kind = "lo"
           /\ s = 3 => Answer(s, b).kind = "hi" /\ Answer(s, b).scan = PS2_Data["hi"]
           /\ Answer(s, b).scan \in {0, PS2_Data["lo"], PS2_Data["hi"]}
<1>1. ASSUME NEW half \in {"lo", "hi"}
      PROVE  /\ Data(half) \in Reply /\ Data(half).kind = half
             /\ Data(half).scan = PS2_Data[half]
  BY DEF Data, Reply, Kinds
<1>2. {"00", "41", "5A", "FF"} \subseteq Kinds
  BY DEF Kinds
<1>3. CASE s = 0
  BY <1>2, <1>3, FixedLemma DEF Answer
<1>4. CASE s = 1
  BY <1>2, <1>4, FixedLemma DEF Answer
<1>5. CASE s = 2
  BY <1>1, <1>5 DEF Answer
<1>6. CASE s = 3
  BY <1>1, <1>6 DEF Answer
<1>7. CASE s \notin 0..3
  <2>1. s # 0 /\ s # 1 /\ s # 2 /\ s # 3
    BY <1>7
  <2> HIDE <1>7
  <2>2. Answer(s, b) = Fixed("FF")
    BY <2>1 DEF Answer
  <2> QED
    BY <1>2, <2>1, <2>2, FixedLemma
<1> QED
  BY <1>3, <1>4, <1>5, <1>6, <1>7

LEMMA StateLemma ==
    ASSUME NEW s \in 0 .. StateSize - 1
    PROVE  /\ NextPS2State(s) \in 0 .. StateSize - 1
           /\ s < StateSize - 1 => NextPS2State(s) = s + 1
BY StateSizeAssumption DEF NextPS2State

LEMMA InitIInv == Init => IInv
<1> SUFFICES ASSUME Init PROVE IInv
  OBVIOUS
<1>1. Fixed("00") \in Reply /\ Fixed("00").scan = 0
  BY FixedLemma DEF Kinds
<1>2. TypeOK
  <2>1. heard \in Seq(Reply) /\ sent \in Nat
    BY DEF Init, Initialized
  <2>2. tx \in Reply /\ rx \in Bytes /\ frame \in {"none", "poll", "card"}
    BY <1>1 DEF Init, Initialized, Bytes
  <2>3. PS2_State \in 0 .. StateSize - 1 /\ scan \in Nat /\ since \in Int /\ since >= -1
    BY StateSizeAssumption DEF Init, Initialized
  <2>4. PS2_Data \in [{"lo", "hi"} -> Nat] /\ unstored \in SUBSET {"lo", "hi"}
    BY DEF Init, Initialized
  <2>5. spif \in BOOLEAN /\ acked \in BOOLEAN /\ PS2Assert \in BOOLEAN
    BY DEF Init, Initialized
  <2> QED
    BY <2>1, <2>2, <2>3, <2>4, <2>5 DEF TypeOK
<1>3. PollInv
  BY DEF Init, Initialized, PollInv
<1>4. ScanInv
  BY <1>1 DEF Init, Initialized, ScanInv
<1>5. SinceInv
  BY StateSizeAssumption DEF Init, Initialized, SinceInv
<1> QED
  BY <1>2, <1>3, <1>4, <1>5 DEF IInv
(* A byte is exchanged.  In a poll the console sends one when the last was *)
(* served and acknowledged, and hears the reply made to that one.          *)
LEMMA ExchangeStep ==
    ASSUME IInv, NEW b \in Bytes, Exchange(b),
           frame' \in {"none", "poll", "card"}, sent' \in Nat, heard' \in Seq(Reply),
           PollInv',
           frame' = "poll" /\ sent' # 1 =>
                /\ frame = "poll" /\ sent < 5 /\ acked
                /\ sent' = sent + 1 /\ heard' = Append(heard, tx)
    PROVE  IInv'
<1>1. /\ rx' = b /\ tx' = Fixed("echo") /\ spif' = TRUE /\ acked' = FALSE
      /\ UNCHANGED <<PS2_State, PS2Assert, since, PS2_Data, scan, unstored>>
  BY DEF Exchange, load
<1>2. Fixed("echo") \in Reply /\ Fixed("echo").scan = 0
  BY FixedLemma DEF Kinds
<1>3. TypeOK'
  BY <1>1, <1>2 DEF IInv, TypeOK
<1>4. ScanInv'
  <2>1. /\ \A half \in {"lo", "hi"} :
             PS2_Data'[half] = IF half \in unstored' THEN scan' - 1 ELSE scan'
        /\ unstored' # {} => scan' >= 1
        /\ tx'.scan <= scan'
    BY <1>1, <1>2 DEF IInv, ScanInv, TypeOK
  <2>2. ASSUME frame' = "poll", sent' # 1
        PROVE  /\ sent' >= 4 => heard'[4].scan <= scan'
               /\ sent' = 5 => heard'[5].scan >= heard'[4].scan - 1
    <3>1. /\ frame = "poll" /\ sent' = sent + 1 /\ sent \in 1..4 /\ acked
          /\ heard' = Append(heard, tx) /\ Len(heard) = sent /\ ~spif
      BY <2>2 DEF IInv, PollInv, TypeOK
    <3>2. heard'[sent + 1] = tx /\ \A i \in 1..sent : heard'[i] = heard[i]
      BY <3>1 DEF IInv, TypeOK
    <3>3. /\ tx.scan <= scan
          /\ sent >= 4 => heard[4].scan <= scan
          /\ sent = 4 => tx.scan >= heard[4].scan - 1
      BY <3>1 DEF IInv, ScanInv
    <3>4. CASE sent = 4
      BY <1>1, <3>1, <3>2, <3>3, <3>4
    <3>5. CASE sent = 3
      BY <1>1, <3>1, <3>2, <3>3, <3>5
    <3>6. CASE sent \in 1..2
      BY <3>1, <3>6
    <3> QED
      BY <3>1, <3>4, <3>5, <3>6
  <2> QED
    BY <1>1, <2>1, <2>2 DEF ScanInv
<1>5. SinceInv'
  BY <1>1 DEF IInv, SinceInv
<1> QED
  BY <1>3, <1>4, <1>5 DEF IInv
LEMMA StartPollStep == IInv /\ StartPoll => IInv'
<1> SUFFICES ASSUME IInv, StartPoll PROVE IInv'
  OBVIOUS
<1>1. frame' = "poll" /\ sent' = 1 /\ heard' = <<tx>> /\ Exchange("01") /\ "01" \in Bytes
  BY DEF StartPoll, Bytes
<1>2. heard' \in Seq(Reply) /\ Len(heard') = 1
  BY <1>1 DEF IInv, TypeOK
<1>3. PollInv'
  BY <1>1, <1>2 DEF PollInv, Exchange, SentBytes
<1> QED
  BY <1>1, <1>2, <1>3, ExchangeStep

LEMMA ContinuePollStep == IInv /\ ContinuePoll => IInv'
<1> SUFFICES ASSUME IInv, ContinuePoll PROVE IInv'
  OBVIOUS
<1>1. PICK b \in IF sent = 1 THEN {"42", "43"} ELSE {"00"} : Exchange(b)
  BY DEF ContinuePoll
<1>2. /\ frame = "poll" /\ frame' = "poll" /\ sent < 5 /\ acked
      /\ sent' = sent + 1 /\ heard' = Append(heard, tx)
  BY DEF ContinuePoll
<1>3. /\ sent \in 1..4 /\ Len(heard) = sent /\ ~spif /\ PS2_State = sent
      /\ tx.kind = Expected[sent + 1]
      /\ \A i \in 2..5 : i <= sent => heard[i].kind = Expected[i]
      /\ heard \in Seq(Reply) /\ tx \in Reply
  BY <1>2 DEF IInv, PollInv, TypeOK
<1>4. /\ b \in Bytes
      /\ b \in SentBytes(sent + 1)
  BY <1>1, <1>3 DEF Bytes, SentBytes
<1>5. /\ heard' \in Seq(Reply) /\ Len(heard') = sent + 1
      /\ heard'[sent + 1] = tx /\ \A i \in 1..sent : heard'[i] = heard[i]
  BY <1>2, <1>3
<1>6. \A i \in 2..5 : i <= sent' => heard'[i].kind = Expected[i]
  BY <1>2, <1>3, <1>5
<1>7. rx' = b /\ spif' = TRUE /\ acked' = FALSE /\ PS2_State' = PS2_State
  BY <1>1 DEF Exchange
<1>8. PollInv'
  BY <1>2, <1>3, <1>4, <1>5, <1>6, <1>7 DEF PollInv
<1> QED
  BY <1>1, <1>2, <1>3, <1>4, <1>5, <1>8, ExchangeStep

LEMMA CardStep == IInv /\ (StartCard \/ ContinueCard) => IInv'
<1> SUFFICES ASSUME IInv, StartCard \/ ContinueCard PROVE IInv'
  OBVIOUS
<1>1. PICK b \in Bytes : Exchange(b)
  BY CardBytesAssumption DEF StartCard, ContinueCard, Bytes
<1>2. frame' = "card" /\ sent' \in Nat /\ heard' = heard
  BY DEF StartCard, ContinueCard, IInv, TypeOK
<1>3. heard' \in Seq(Reply) /\ PollInv'
  BY <1>2 DEF IInv, TypeOK, PollInv
<1> QED
  BY <1>1, <1>2, <1>3, ExchangeStep

LEMMA EndFrameStep == IInv /\ EndFrame => IInv'
<1> SUFFICES ASSUME IInv, EndFrame PROVE IInv'
  OBVIOUS
<1>1. /\ frame' = "none" /\ sent' = 0 /\ heard' = <<>>
      /\ UNCHANGED <<rx, tx, spif, acked, PS2_State, PS2Assert, since, PS2_Data, scan, unstored>>
  BY DEF EndFrame, spi, load
<1>2. TypeOK'
  BY <1>1 DEF IInv, TypeOK
<1> QED
  BY <1>1, <1>2 DEF IInv, PollInv, ScanInv, SinceInv

(* The interrupt serves a byte: within a poll, in the state that the       *)
(* console's place calls for, since 01 set it.                             *)
LEMMA InterruptStep == IInv /\ SPI_ISR => IInv'
<1> SUFFICES ASSUME IInv, SPI_ISR PROVE IInv'
  OBVIOUS
<1> DEFINE s == StateFor(rx)
<1>1. /\ spif /\ spif' = FALSE /\ PS2Assert' = TRUE
      /\ tx' = Answer(s, rx) /\ acked' = Acknowledges(s, rx)
      /\ PS2_State' = NextPS2State(s)
      /\ since' = IF rx = "01" THEN 0 ELSE since + 1
      /\ UNCHANGED <<frame, sent, heard, rx, PS2_Data, scan, unstored>>
  BY DEF SPI_ISR, console, load
<1>2. s \in 0 .. StateSize - 1 /\ s \in Nat
  BY StateSizeAssumption DEF StateFor, IInv, TypeOK
<1>3. acked' \in BOOLEAN /\ (acked' <=> Acknowledges(s, rx))
  <2>1. acked' <=> Acknowledges(s, rx)
    BY <1>1, Zenon
  <2> QED
    BY <1>1, <2>1 DEF Acknowledges
<1>4. PS2_Data \in [{"lo", "hi"} -> Nat]
  BY DEF IInv, TypeOK
<1> HIDE DEF s
<1>5. /\ tx' \in Reply
      /\ s = 0 => tx'.kind = "41"
      /\ s = 1 /\ rx = "42" => tx'.kind = "5A"
      /\ s = 2 => tx'.kind = "lo"
      /\ s = 3 => tx'.kind = "hi" /\ tx'.scan = PS2_Data["hi"]
      /\ tx'.scan \in {0, PS2_Data["lo"], PS2_Data["hi"]}
  BY <1>1, <1>2, <1>4, AnswerLemma
<1>6. TypeOK'
  <2>1. PS2_State' \in 0 .. StateSize - 1
    BY <1>1, <1>2, StateLemma
  <2>2. since' \in Int /\ since' >= -1
    BY <1>1 DEF IInv, TypeOK
  <2> QED
    BY <1>1, <1>3, <1>5, <2>1, <2>2 DEF IInv, TypeOK
<1>7. ASSUME frame = "poll"
      PROVE  sent \in 1..5 /\ s = sent - 1 /\ rx \in SentBytes(sent)
  <2>1. sent \in 1..5 /\ rx \in SentBytes(sent) /\ (sent # 1 => PS2_State = sent - 1)
    BY <1>1, <1>7 DEF IInv, PollInv
  <2>2. rx = "01" <=> sent = 1
    BY <2>1 DEF SentBytes
  <2>3. s = sent - 1
    <3>1. rx = "01" => s = 0
      BY DEF s, StateFor
    <3>2. rx # "01" => s = PS2_State
      BY DEF s, StateFor
    <3> QED
      BY <2>1, <2>2, <3>1, <3>2
  <2> QED
    BY <2>1, <2>3
<1>8. PollInv'
  <2> SUFFICES ASSUME frame = "poll" PROVE PollInv'
    BY <1>1 DEF PollInv
  <2>1. sent \in 1..5 /\ s = sent - 1 /\ rx \in SentBytes(sent)
    BY <1>7
  <2>2. PS2_State' = sent
    BY <1>1, <1>2, <2>1, StateLemma, StateSizeAssumption
  <2>3. acked' <=> rx # "43"
    <3>1. CASE sent = 1
      BY <1>3, <2>1, <3>1 DEF Acknowledges, SentBytes
    <3>2. CASE sent = 2
      <4>1. s = 1 /\ rx \in {"42", "43"}
        BY <2>1, <3>2 DEF SentBytes
      <4> QED
        BY <1>3, <4>1 DEF Acknowledges
    <3>3. CASE sent \in 3..5
      <4>1. s \in {2, 3, 4} /\ rx = "00"
        BY <2>1, <3>3 DEF SentBytes
      <4> QED
        BY <1>3, <4>1 DEF Acknowledges
    <3> QED
      BY <2>1, <3>1, <3>2, <3>3
  <2>4. sent < 5 /\ acked' => tx'.kind = Expected[sent + 1]
    BY <1>5, <2>1, <2>3 DEF Expected, SentBytes
  <2> QED
    BY <1>1, <2>1, <2>2, <2>3, <2>4 DEF IInv, PollInv
<1>9. ScanInv'
  <2>1. /\ \A half \in {"lo", "hi"} :
             PS2_Data[half] = IF half \in unstored THEN scan - 1 ELSE scan
        /\ scan \in Nat /\ (unstored # {} => scan >= 1)
    BY DEF IInv, ScanInv, TypeOK
  <2>2. tx'.scan <= scan
    BY <1>5, <2>1
  <2>3. frame = "poll" /\ sent = 4 => tx'.scan >= heard[4].scan - 1
    <3> SUFFICES ASSUME frame = "poll", sent = 4 PROVE tx'.scan >= heard[4].scan - 1
      OBVIOUS
    <3>1. tx'.scan = PS2_Data["hi"] /\ heard[4].scan <= scan
      BY <1>5, <1>7 DEF IInv, ScanInv
    <3>2. heard[4].scan \in Nat
      <4>1. heard \in Seq(Reply) /\ Len(heard) = 4
        BY DEF IInv, TypeOK, PollInv
      <4>2. heard[4] \in Reply
        BY <4>1
      <4> QED
        BY <4>2 DEF Reply
    <3> QED
      BY <2>1, <3>1, <3>2
  <2> QED
    BY <1>1, <2>1, <2>2, <2>3 DEF IInv, ScanInv
<1>10. SinceInv'
  <2>1. CASE rx = "01"
    BY <1>1, <1>2, <2>1, StateLemma, StateSizeAssumption DEF SinceInv, s, StateFor
  <2>2. CASE rx # "01"
    <3> SUFFICES ASSUME since' < StateSize - 1 PROVE PS2_State' = since' + 1
      BY DEF SinceInv
    <3>1. since' = since + 1 /\ s = PS2_State /\ since \in Int
      BY <1>1, <2>2 DEF s, StateFor, IInv, TypeOK
    <3>2. PS2_State = since + 1
      BY <3>1, StateSizeAssumption DEF IInv, SinceInv
    <3> QED
      BY <1>1, <1>2, <3>1, <3>2, StateLemma, StateSizeAssumption
  <2> QED
    BY <2>1, <2>2
<1> QED
  BY <1>6, <1>8, <1>9, <1>10 DEF IInv
(* A scan, and the stores of its two bytes.                                *)
LEMMA LoadStep == IInv /\ (LoadScan \/ LoadStore) => IInv'
<1> SUFFICES ASSUME IInv, LoadScan \/ LoadStore PROVE IInv'
  OBVIOUS
<1>1. UNCHANGED <<frame, sent, heard, rx, tx, spif, acked, PS2_State, PS2Assert, since>>
  BY DEF LoadScan, LoadStore, console, spi
<1>2. PollInv' /\ SinceInv'
  BY <1>1 DEF IInv, PollInv, SinceInv
<1>3. /\ \A half \in {"lo", "hi"} :
           PS2_Data[half] = IF half \in unstored THEN scan - 1 ELSE scan
      /\ unstored # {} => scan >= 1
      /\ scan \in Nat /\ unstored \in SUBSET {"lo", "hi"}
      /\ PS2_Data \in [{"lo", "hi"} -> Nat]
      /\ tx.scan <= scan /\ tx.scan \in Nat
  BY DEF IInv, ScanInv, TypeOK, Reply
<1>4. /\ scan' \in Nat /\ scan' >= scan
      /\ unstored' \in SUBSET {"lo", "hi"} /\ (unstored' # {} => scan' >= 1)
      /\ PS2_Data' \in [{"lo", "hi"} -> Nat]
      /\ \A half \in {"lo", "hi"} :
           PS2_Data'[half] = IF half \in unstored' THEN scan' - 1 ELSE scan'
  <2>1. CASE LoadScan
    BY <1>3, <2>1 DEF LoadScan
  <2>2. CASE LoadStore
    <3>1. PICK half \in unstored :
            /\ PS2_Data' = [PS2_Data EXCEPT ![half] = scan]
            /\ unstored' = unstored \ {half}
            /\ scan' = scan
      BY <2>2 DEF LoadStore
    <3>2. PS2_Data'[half] = scan /\ half \notin unstored'
      BY <1>3, <3>1
    <3>3. ASSUME NEW g \in {"lo", "hi"}, g # half
          PROVE  PS2_Data'[g] = PS2_Data[g] /\ (g \in unstored' <=> g \in unstored)
      BY <1>3, <3>1, <3>3
    <3>4. \A g \in {"lo", "hi"} : PS2_Data'[g] = IF g \in unstored' THEN scan' - 1 ELSE scan'
      BY <1>3, <3>1, <3>2, <3>3
    <3> QED
      BY <1>3, <3>1, <3>4
  <2> QED
    BY <2>1, <2>2
<1>5. TypeOK'
  BY <1>1, <1>4 DEF IInv, TypeOK
<1>6. frame = "poll" /\ sent >= 4 => heard[4].scan <= scan'
  <2> SUFFICES ASSUME frame = "poll", sent >= 4 PROVE heard[4].scan <= scan'
    OBVIOUS
  <2>1. heard \in Seq(Reply) /\ Len(heard) = sent /\ sent \in 4..5 /\ heard[4].scan <= scan
    BY DEF IInv, TypeOK, PollInv, ScanInv
  <2>2. heard[4] \in Reply
    BY <2>1
  <2> QED
    BY <1>3, <1>4, <2>1, <2>2 DEF Reply
<1>7. ScanInv'
  BY <1>1, <1>3, <1>4, <1>6 DEF IInv, ScanInv
<1> QED
  BY <1>2, <1>5, <1>7 DEF IInv

(* IInv is inductive.                                                      *)
LEMMA Inductive == IInv /\ [Next]_vars => IInv'
<1> SUFFICES ASSUME IInv, [Next]_vars PROVE IInv'
  OBVIOUS
<1>1. CASE Drained \/ UNCHANGED vars
  <2>1. /\ UNCHANGED <<frame, sent, heard, rx, tx, spif, acked, PS2_State, since,
                       PS2_Data, scan, unstored>>
        /\ PS2Assert' \in BOOLEAN
    BY <1>1 DEF Drained, vars, console, spi, load, IInv, TypeOK
  <2> QED
    BY <2>1 DEF IInv, TypeOK, PollInv, ScanInv, SinceInv
<1> QED
  BY <1>1, StartPollStep, ContinuePollStep, CardStep, EndFrameStep, InterruptStep, LoadStep
     DEF Next

(* IInv holds in every reachable state.                                    *)
THEOREM Invariance == Spec => []IInv
BY InitIInv, Inductive, PTL DEF Spec

(* PS2_State stays a byte, and replies are what the interrupt can make.    *)
THEOREM TypeCorrect == Spec => []TypeOK
<1>1. IInv => TypeOK
  BY DEF IInv
<1> QED
  BY <1>1, Invariance, PTL

(* Polls are answered 41 5A lo hi and acknowledged (PS2.c:233-271),        *)
(* whatever the bus carried before, for every width of PS2_State of at     *)
(* least six values, every memory card traffic and every length of it.     *)
THEOREM PollsAnswered == Spec => []PollAnswered
<1>1. IInv => PollAnswered
  BY DEF IInv, PollInv, PollAnswered
<1> QED
  BY <1>1, Invariance, PTL

(* The two bytes of a reply are never more than a scan apart the wrong     *)
(* way, however the stores of PS2_Data interleave with the interrupt.      *)
THEOREM RepliesNeverOlder == Spec => []HighNotOlder
<1>1. IInv => HighNotOlder
  BY DEF IInv, ScanInv, HighNotOlder
<1> QED
  BY <1>1, Invariance, PTL

(* The pad stays off the acknowledge line after a frame, for the bytes     *)
(* that PS2_State can count (PS2.c:265-268).                               *)
THEOREM SilentAfterFrames == Spec => SilentAfterFrame
<1>1. IInv /\ [Next]_vars => [SPI_ISR /\ since' \in 5 .. StateSize - 1 => ~acked']_vars
  <2> SUFFICES ASSUME IInv, SPI_ISR, since' \in 5 .. StateSize - 1 PROVE ~acked'
    OBVIOUS
  <2>1. rx # "01" /\ since' = since + 1 /\ since \in Int
    BY DEF SPI_ISR, IInv, TypeOK
  <2>2. PS2_State = since'
    BY <2>1, StateSizeAssumption DEF IInv, SinceInv
  <2>3. acked' <=> Acknowledges(StateFor(rx), rx)
    BY Zenon DEF SPI_ISR
  <2>4. StateFor(rx) = PS2_State /\ PS2_State >= 5 /\ PS2_State \in Int
    BY <2>1, <2>2, StateSizeAssumption DEF StateFor
  <2> QED
    BY <2>3, <2>4 DEF Acknowledges
<1> QED
  BY <1>1, Invariance, PTL DEF Spec, SilentAfterFrame
=============================================================================
