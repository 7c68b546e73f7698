------------------------ MODULE FirmwareUpdateProofs ------------------------
(***************************************************************************)
(* Proofs about FirmwareUpdate, for every memory and block size, every     *)
(* set of files and any number of updates.  The reader's state is what the *)
(* lines it has read mean: one more line adds at most itself to the lines  *)
(* that set the base or cover an address, and is then the last of them, so *)
(* that nothing has to be known of the lines before it.  A line across the *)
(* last address makes the reader's state anything, and what is proved of   *)
(* it is proved until there is one.                                        *)
(***************************************************************************)
EXTENDS FirmwareUpdate, TLAPS

Active == pc \in {"reading", "opening", "programming"}

\* Line j of a file is in order.
Good(f, j) ==
    /\ f[j].frame
    /\ f[j].addr + BaseAt(f, j - 1) + Length(f[j]) < MaxMemory
    /\ f[j].code = 0 => f[j].sum

Reader ==
    Active /\ source # NoFile /\ WithinAddresses(source, line) =>
        /\ extended = BaseAt(source, line)
        /\ \A j \in 1 .. line : Good(source, j)
        /\ pc = "reading" => \A j \in 1 .. line : source[j].code # 1

Ready ==
    pc \in {"opening", "programming"} =>
        source # NoFile /\ (WithinAddresses(source, line) => Whole(source, line))

\* The blocks that were programmed or skipped have what the file says of them.
Kept(n) ==
    \A a \in Address : a < n /\ a < MaxMemory - BlockSize /\ Meaning(source, line, a) # None =>
        flash[a] = Meaning(source, line, a)
Written ==
    /\ pc \in {"reading", "opening"} => block = 0
    /\ pc = "programming" /\ WithinAddresses(source, line) => Kept(block)

Fresh == pc # "idle" => result = "none"

Aligned == \E k \in Nat : block = k * BlockSize

IInv ==
    /\ TypeOK /\ Reader /\ Ready /\ Written /\ Fresh /\ Aligned
    /\ ImageIsFile /\ UpdatedMeansProgrammed
-----------------------------------------------------------------------------
(* What one more line means *)

LEMMA LatestLemma ==
    ASSUME NEW S, NEW n \in S, n \in Nat, \A i \in S : i \in Nat /\ i <= n
    PROVE  Latest(S) = n
<1> DEFINE P(j) == \A i \in S : i <= j
<1> DEFINE j0 == CHOOSE j \in S : P(j)
<1>1. j0 \in S /\ P(j0)
  <2>1. P(n) OBVIOUS
  <2> HIDE DEF P
  <2> QED BY <2>1
<1>2. j0 = n
  <2>1. n <= j0 /\ j0 \in S BY <1>1
  <2> HIDE DEF j0
  <2>2. j0 \in Nat /\ j0 <= n BY <2>1
  <2> QED BY <2>1, <2>2
<1>3. Latest(S) = j0 BY DEF Latest
<1> QED BY <1>2, <1>3

LEMMA NoBase ==
    ASSUME NEW f
    PROVE  BaseAt(f, 0) = 0
<1>1. Bases(f, 0) = {} BY DEF Bases
<1> QED BY <1>1 DEF BaseAt

LEMMA NextBase ==
    ASSUME NEW f, NEW n \in Nat
    PROVE  BaseAt(f, n + 1) = IF SetsBase(f[n + 1]) THEN f[n + 1].base ELSE BaseAt(f, n)
<1>1. CASE SetsBase(f[n + 1])
  <2>1. n + 1 \in Bases(f, n + 1) /\ \A i \in Bases(f, n + 1) : i \in Nat /\ i <= n + 1
    BY <1>1 DEF Bases
  <2>2. Latest(Bases(f, n + 1)) = n + 1 BY <2>1, LatestLemma
  <2> QED BY <1>1, <2>1, <2>2 DEF BaseAt
<1>2. CASE ~SetsBase(f[n + 1])
  <2>1. Bases(f, n + 1) = Bases(f, n)
    BY <1>2 DEF Bases
  <2> QED BY <1>2, <2>1 DEF BaseAt
<1> QED BY <1>1, <1>2

LEMMA NoMeaning ==
    ASSUME NEW f, NEW a
    PROVE  Meaning(f, 0, a) = None
<1>1. Covering(f, 0, a) = {} BY DEF Covering
<1> QED BY <1>1 DEF Meaning

Covers(f, j, a) == f[j].code = 0 /\ a \in Place(f, j) .. Place(f, j) + Length(f[j]) - 1

LEMMA NextMeaning ==
    ASSUME NEW f, NEW n \in Nat, NEW a
    PROVE  Meaning(f, n + 1, a) =
               IF Covers(f, n + 1, a) THEN ByteOf(f, n + 1, a) ELSE Meaning(f, n, a)
<1>1. CASE Covers(f, n + 1, a)
  <2>1. n + 1 \in Covering(f, n + 1, a) /\ \A i \in Covering(f, n + 1, a) : i \in Nat /\ i <= n + 1
    BY <1>1 DEF Covering, Covers
  <2>2. Latest(Covering(f, n + 1, a)) = n + 1 BY <2>1, LatestLemma
  <2> QED BY <1>1, <2>1, <2>2 DEF Meaning
<1>2. CASE ~Covers(f, n + 1, a)
  <2>1. Covering(f, n + 1, a) = Covering(f, n, a)
    BY <1>2 DEF Covering, Covers
  <2> QED BY <1>2, <2>1 DEF Meaning
<1> QED BY <1>1, <1>2
-----------------------------------------------------------------------------
LEMMA SizeFacts ==
    /\ MaxMemory \in Nat /\ BlockSize \in Nat /\ BlockSize > 0 /\ MaxMemory > 0
    /\ AddressSize \in Nat /\ AddressSize > MaxMemory /\ Strays \subseteq Nat
    /\ Address \subseteq Nat
    /\ \A c \in Chips \cup {ToolCode} : c \in 1 .. MaxMemory
BY SizesAssumption DEF Address

LEMMA InitOK == Init => IInv
<1> SUFFICES ASSUME Init PROVE IInv
  OBVIOUS
<1>0. pc = "idle" /\ result = "none" /\ block = 0 BY DEF Init
<1>1. TypeOK
  <2>1. program \in {"tool", "loader"} /\ options \in LoaderOptions(Chips \cup {ToolCode})
    <3>1. ToolOptions \in LoaderOptions(Chips \cup {ToolCode})
      BY DEF ToolOptions, LoaderOptions
    <3>2. \A o \in LoaderOptions(Chips) : o \in LoaderOptions(Chips \cup {ToolCode})
      BY DEF LoaderOptions
    <3> QED BY <3>1, <3>2 DEF Init
  <2>2. image \in [Address -> Byte \cup {None}] /\ flash \in [Address -> Byte]
    BY DEF Init, Empty, Blank, Byte
  <2>3. waited \in BOOLEAN BY Zenon DEF Init
  <2> QED BY <2>1, <2>2, <2>3, BoundsAssumption DEF Init, TypeOK
<1>2. Reader /\ Ready /\ Written /\ Fresh /\ ImageIsFile /\ UpdatedMeansProgrammed
  BY <1>0 DEF Reader, Active, Ready, Written, Fresh, ImageIsFile, UpdatedMeansProgrammed
<1>3. Aligned
  <2>1. 0 * BlockSize = 0 BY SizeFacts
  <2> QED BY <1>0, <2>1 DEF Aligned
<1> QED BY <1>1, <1>2, <1>3 DEF IInv

\* What a line of a file is.
LEMMA LineType ==
    ASSUME TypeOK, source # NoFile, line < Len(source)
    PROVE  /\ Current \in Lines /\ Current = source[line + 1]
           /\ Length(Current) \in Nat /\ Current.addr \in Nat /\ Current.base \in Nat
           /\ Current.code \in 0 .. 5
           /\ \A i \in 1 .. Length(Current) : Current.data[i] \in Byte
<1>1. source \in Seq(Lines) BY FilesAssumption DEF TypeOK
<1>2. line \in Nat BY DEF TypeOK
<1>3. Current \in Lines /\ Current = source[line + 1] BY <1>1, <1>2 DEF Current
<1>4. Current.data \in Seq(Byte) /\ Current.addr \in Nat /\ Current.base \in Nat /\ Current.code \in 0 .. 5
  BY <1>3 DEF Lines
<1> QED BY <1>3, <1>4 DEF Length

\* Remainders of a number that is smaller, and of a small negative one.
LEMMA Remainders ==
    ASSUME NEW m \in Nat, m > 0
    PROVE  /\ \A x \in Int : x % m \in 0 .. m - 1
           /\ \A x \in 0 .. m - 1 : x % m = x
           /\ \A x \in Int : -m <= x /\ x < 0 => x % m = x + m
<1>1. \A x \in Int : x % m \in 0 .. m - 1
  OBVIOUS
<1>2. \A x \in 0 .. m - 1 : x % m = x
  OBVIOUS
<1>3. \A x \in Int : -m <= x /\ x < 0 => x % m = x + m
  OBVIOUS
<1> QED
  BY <1>1, <1>2, <1>3

LEMMA StoredType ==
    ASSUME TypeOK, source # NoFile, line < Len(source)
    PROVE  Stored(Current) \in [Address -> Byte \cup {None}]
<1> DEFINE n(a) == (a - First(Current)) % AddressSize
<1>1. ASSUME NEW a \in Address
      PROVE  (IF n(a) < Length(Current) THEN Current.data[n(a) + 1] ELSE image[a])
             \in Byte \cup {None}
  <2>1. n(a) \in Nat
    <3>1. extended \in Nat BY DEF TypeOK
    <3>2. Current.addr + extended \in Int BY <3>1, LineType
    <3>3. First(Current) \in Int BY <3>2, SizeFacts, Remainders DEF First
    <3>4. a - First(Current) \in Int BY <3>3, SizeFacts
    <3> QED BY <3>4, SizeFacts, Remainders
  <2> HIDE DEF n
  <2>2. CASE n(a) < Length(Current)
    <3>1. n(a) + 1 \in 1 .. Length(Current) BY <2>1, <2>2, LineType
    <3> QED BY <3>1, <2>2, LineType
  <2>3. CASE ~(n(a) < Length(Current))
    BY <2>3 DEF TypeOK
  <2> QED BY <2>2, <2>3
<1> QED BY <1>1 DEF Stored

LEMMA OverwrittenType ==
    ASSUME TypeOK, source # NoFile, line < Len(source)
    PROVE  Overwritten(Current) \subseteq [Address -> Byte \cup {None}]
<1> DEFINE last == {a \in Address : a + AddressSize >= MaxMemory + First(Current)}
<1> DEFINE spilt == UNION {[S -> {None, Blank, 1}] : S \in SUBSET last}
<1>1. ASSUME NEW s \in spilt
      PROVE  [a \in Address |-> IF a \in DOMAIN s THEN s[a] ELSE Stored(Current)[a]]
             \in [Address -> Byte \cup {None}]
  <2>1. PICK S \in SUBSET last : s \in [S -> {None, Blank, 1}]
    OBVIOUS
  <2>2. \A a \in DOMAIN s : s[a] \in Byte \cup {None}
    BY <2>1 DEF Blank, Byte
  <2>3. \A a \in Address : Stored(Current)[a] \in Byte \cup {None}
    BY StoredType
  <2> QED
    BY <2>2, <2>3
<1> HIDE DEF spilt
<1>2. Overwritten(Current) =
        {[a \in Address |-> IF a \in DOMAIN s THEN s[a] ELSE Stored(Current)[a]] : s \in spilt}
  BY DEF Overwritten, spilt
<1> QED
  BY <1>1, <1>2

(* A line that does not reach across the last address is stored and bound  *)
(* by sums that do not wrap.                                               *)
LEMMA WithinLine ==
    ASSUME TypeOK, source # NoFile, line < Len(source),
           Current.addr + extended + Length(Current) < AddressSize
    PROVE  /\ First(Current) = Current.addr + extended
           /\ ~Overruns(Current)
           /\ ~Refused(Current) =>
                 Current.frame /\ Current.addr + extended + Length(Current) < MaxMemory
           /\ \A a \in Address : Stored(Current)[a] =
                 IF a \in First(Current) .. First(Current) + Length(Current) - 1
                 THEN Current.data[a - First(Current) + 1] ELSE image[a]
<1> DEFINE F == First(Current)
<1>0. /\ Current.addr \in Nat /\ extended \in Nat /\ Length(Current) \in Nat
      /\ AddressSize \in Nat /\ MaxMemory \in Nat /\ AddressSize > MaxMemory
  BY LineType, SizeFacts DEF TypeOK
<1>1. F = Current.addr + extended
  <2>1. Current.addr + extended \in 0 .. AddressSize - 1 BY <1>0
  <2>2. \A x \in 0 .. AddressSize - 1 : x % AddressSize = x BY <1>0, Remainders
  <2>3. (Current.addr + extended) % AddressSize = Current.addr + extended BY <2>1, <2>2, Zenon
  <2> QED BY <2>3, Zenon DEF First
<1>2. F \in Nat /\ F + Length(Current) < AddressSize BY <1>0, <1>1
<1>3. ~Overruns(Current) BY <1>0, <1>2 DEF Overruns
<1>4. (F + Length(Current)) % AddressSize = F + Length(Current)
  <2>1. F + Length(Current) \in 0 .. AddressSize - 1 BY <1>0, <1>2
  <2> QED BY <1>0, <2>1, Remainders
<1>5. ~Refused(Current) => Current.frame /\ F + Length(Current) < MaxMemory
  <2> HIDE DEF F
  <2> SUFFICES ASSUME ~Refused(Current) PROVE Current.frame /\ F + Length(Current) < MaxMemory
    OBVIOUS
  <2>1. Current.frame /\ ~((F + Length(Current)) % AddressSize >= MaxMemory)
    BY DEF Refused, F
  <2> QED BY <1>0, <1>2, <1>4, <2>1
<1>6. ASSUME NEW a \in Address
      PROVE  Stored(Current)[a] = IF a \in F .. F + Length(Current) - 1
                                  THEN Current.data[a - F + 1] ELSE image[a]
  <2> DEFINE n == (a - F) % AddressSize
  <2>1. a \in 0 .. AddressSize - 1 BY <1>0 DEF Address
  <2>2. Stored(Current)[a] = IF n < Length(Current) THEN Current.data[n + 1] ELSE image[a]
    BY DEF Stored
  <2> HIDE DEF F
  <2>3. CASE a >= F
    <3>1. a - F \in 0 .. AddressSize - 1 BY <1>0, <1>2, <2>1, <2>3
    <3>2. n = a - F BY <1>0, <3>1, Remainders
    <3> HIDE DEF n
    <3> QED BY <1>0, <1>2, <2>1, <2>2, <2>3, <3>2
  <2>4. CASE a < F
    <3>1. a - F \in Int /\ -AddressSize <= a - F /\ a - F < 0 BY <1>0, <1>2, <2>1, <2>4
    <3>2. n = a - F + AddressSize BY <1>0, <3>1, Remainders
    <3> HIDE DEF n
    <3>3. ~(n < Length(Current)) BY <1>0, <1>2, <2>1, <3>2
    <3> QED BY <1>2, <2>1, <2>2, <2>4, <3>3
  <2> QED BY <1>2, <2>1, <2>3, <2>4
<1> QED BY <1>1, <1>3, <1>5, <1>6

\* A block that is programmed.
LEMMA ProgrammedType ==
    ASSUME TypeOK, NEW rest \in [Address -> Byte]
    PROVE  /\ Programmed(block, rest) \in [Address -> Byte]
           /\ \A a \in Address : Programmed(block, rest)[a] =
                 IF ~(block <= a /\ a < block + BlockSize) THEN rest[a]
                 ELSE IF block + BlockSize >= MaxMemory \/ image[a] = None THEN Blank ELSE image[a]
<1>1. \A a \in Address : a \in Page(block) <=> block <= a /\ a < block + BlockSize
  BY DEF Page
<1>2. \A a \in Page(block) : GetData(block)[a] =
          IF block + BlockSize >= MaxMemory \/ image[a] = None THEN Blank ELSE image[a]
  BY DEF GetData
<1>3. \A a \in Address : Programmed(block, rest)[a] =
          IF a \in Page(block) THEN GetData(block)[a] ELSE rest[a]
  BY DEF Programmed
<1>4. \A a \in Address : Programmed(block, rest)[a] =
          IF ~(block <= a /\ a < block + BlockSize) THEN rest[a]
          ELSE IF block + BlockSize >= MaxMemory \/ image[a] = None THEN Blank ELSE image[a]
  BY <1>1, <1>2, <1>3
<1>5. \A a \in Address : Programmed(block, rest)[a] \in Byte
  <2>1. image \in [Address -> Byte \cup {None}] BY DEF TypeOK
  <2>2. \A a \in Address : rest[a] \in Byte /\ (image[a] # None => image[a] \in Byte) BY <2>1
  <2>3. Blank \in Byte BY DEF Blank, Byte
  <2> QED BY <1>4, <2>2, <2>3
<1> QED BY <1>4, <1>5 DEF Programmed

\* What a write that reaches the board makes of the flash: the block has its
\* data, and the others are as they were, or blank if it is the first.
LEMMA WritesFacts ==
    ASSUME TypeOK, NEW f \in Writes(block)
    PROVE  /\ f \in [Address -> Byte]
           /\ \A a \in Address :
                 IF block <= a /\ a < block + BlockSize
                 THEN f[a] = IF block + BlockSize >= MaxMemory \/ image[a] = None
                             THEN Blank ELSE image[a]
                 ELSE f[a] = flash[a] \/ (block = 0 /\ f[a] = Blank)
<1>1. flash \in [Address -> Byte] BY DEF TypeOK
<1>2. Erased \in [Address -> Byte] BY DEF Erased, Blank, Byte
<1>3. CASE f = Programmed(block, flash)
  BY <1>1, <1>3, ProgrammedType
<1>4. CASE block = 0 /\ f = Programmed(block, Erased)
  <2>1. \A a \in Address : Erased[a] = Blank BY DEF Erased
  <2>2. /\ f \in [Address -> Byte]
        /\ \A a \in Address : f[a] =
              IF ~(block <= a /\ a < block + BlockSize) THEN Erased[a]
              ELSE IF block + BlockSize >= MaxMemory \/ image[a] = None THEN Blank ELSE image[a]
    BY <1>2, <1>4, ProgrammedType
  <2> QED BY <1>4, <2>1, <2>2
<1>5. f = Programmed(block, flash) \/ (block = 0 /\ f = Programmed(block, Erased))
  <2>1. PICK rest \in (IF block = 0 THEN {flash, Erased} ELSE {flash}) : f = Programmed(block, rest)
    BY DEF Writes
  <2> QED BY <2>1
<1> QED BY <1>3, <1>4, <1>5

LEMMA Steps ==
    ASSUME [Next]_vars
    PROVE  \/ Start \/ Read \/ Found \/ RebootSent \/ RebootFails \/ NotFound
           \/ ProgramBlock \/ WriteFails \/ SkipBlock \/ Finish
           \/ Reset \/ Unplug \/ Plug \/ FileChanges
           \/ UNCHANGED vars
BY Zenon DEF Next, Host

(* A read in its cases: it fails, is done, stores a line or sets a base,   *)
(* or stores one across the last address.                                  *)
Fails == /\ pc' = "idle" /\ result' \in {"read failed", "reread failed"}
         /\ UNCHANGED <<source, extended>>
         /\ \/ UNCHANGED image
            \/ source # NoFile /\ line < Len(source) /\ image' = Stored(Current)
         /\ line' \in {line, line + 1}
Done  == /\ source # NoFile /\ ReadDone /\ UNCHANGED image
         /\ \/ line = Len(source) /\ line' = line
            \/ /\ line < Len(source) /\ line' = line + 1
               /\ ~Refused(Current) /\ Current.code = 1
Goes  == /\ source # NoFile /\ line < Len(source) /\ line' = line + 1
         /\ UNCHANGED <<pc, result, source>>
         /\ ~Refused(Current) /\ Current.code # 1
         /\ IF Current.code = 0
            THEN image' = Stored(Current) /\ ~SumWrong(Current) /\ UNCHANGED extended
            ELSE image' = image /\ extended' = IF SetsBase(Current) THEN Current.base ELSE extended
Astray == /\ source # NoFile /\ line < Len(source) /\ line' = line + 1 /\ UNCHANGED source
          /\ Overruns(Current) /\ image' \in Overwritten(Current)
          /\ \/ pc' = "idle" /\ result' \in {"killed", "read failed", "reread failed"}
                /\ UNCHANGED extended
             \/ ReadDone
             \/ UNCHANGED <<pc, result>> /\ extended' \in {extended} \cup Strays

LEMMA ReadCases ==
    ASSUME Read
    PROVE  /\ pc = "reading" /\ (Fails \/ Done \/ Goes \/ Astray)
           /\ UNCHANGED <<program, options, waited, file, block, board, counts>>
<1>1. pc = "reading" /\ UNCHANGED <<program, options, waited, file, block, board, counts>>
  BY Zenon DEF Read
<1>0. ReadFails => pc' = "idle" /\ result' \in {"read failed", "reread failed"} /\ UNCHANGED <<source, extended>>
  BY DEF ReadFails, End
<1>2. CASE source = NoFile /\ ReadFails /\ UNCHANGED <<line, image>>
  BY <1>0, <1>1, <1>2 DEF Fails
<1>3. CASE source # NoFile /\ line = Len(source) /\ ReadDone /\ UNCHANGED <<line, image>>
  BY <1>1, <1>3 DEF Done
<1>4. CASE source # NoFile /\ line < Len(source) /\ line' = line + 1
  <2>1. CASE Refused(Current) /\ ReadFails /\ UNCHANGED image
    BY <1>0, <1>1, <1>4, <2>1 DEF Fails
  <2>2. CASE ~Refused(Current) /\ Current.code = 1 /\ ReadDone /\ UNCHANGED image
    BY <1>1, <1>4, <2>2 DEF Done
  <2>3. CASE ~Refused(Current) /\ Current.code = 0 /\ ~Overruns(Current) /\ DataRead(Current)
    <3>1. CASE SumWrong(Current) BY <1>0, <1>1, <1>4, <2>3, <3>1 DEF Fails, DataRead
    <3>2. CASE ~SumWrong(Current) BY <1>1, <1>4, <2>3, <3>2 DEF Goes, DataRead
    <3> QED BY <3>1, <3>2
  <2>7. CASE Overruns(Current) /\ DataOverruns(Current)
    BY <1>0, <1>1, <1>4, <2>7 DEF Astray, DataOverruns, End, ReadDone
  <2>4. CASE /\ ~Refused(Current) /\ Current.code \notin {0, 1}
             /\ extended' = IF SetsBase(Current) THEN Current.base ELSE extended
             /\ UNCHANGED <<pc, result, source, image>>
    BY <1>1, <1>4, <2>4 DEF Goes
  <2>5. \/ Refused(Current) /\ ReadFails /\ UNCHANGED image
        \/ ~Refused(Current) /\ Current.code = 1 /\ ReadDone /\ UNCHANGED image
        \/ ~Refused(Current) /\ Current.code = 0 /\ ~Overruns(Current) /\ DataRead(Current)
        \/ Overruns(Current) /\ DataOverruns(Current)
        \/ /\ ~Refused(Current) /\ Current.code \notin {0, 1}
           /\ extended' = IF SetsBase(Current) THEN Current.base ELSE extended
           /\ UNCHANGED <<pc, result, source, image>>
        \/ source = NoFile \/ line = Len(source)
    BY Zenon DEF Read
  <2>6. source # NoFile /\ line # Len(source)
    BY <1>4
  <2> QED BY <2>1, <2>2, <2>3, <2>4, <2>5, <2>6, <2>7
<1>5. \/ source = NoFile /\ ReadFails /\ UNCHANGED <<line, image>>
      \/ source # NoFile /\ line = Len(source) /\ ReadDone /\ UNCHANGED <<line, image>>
      \/ source # NoFile /\ line < Len(source) /\ line' = line + 1
  BY Zenon DEF Read
<1> QED BY <1>1, <1>2, <1>3, <1>4, <1>5
-----------------------------------------------------------------------------
(* What the reader has made of the file *)

LEMMA OpenReader ==
    ASSUME OpenFile, pc' = "reading"
    PROVE  Reader' /\ Ready' /\ ImageIsFile'
<1>1. line' = 0 /\ extended' = 0 /\ image' = Empty BY DEF OpenFile
<1>2. extended' = BaseAt(source', line') BY <1>1, NoBase
<1>3. Reader' BY <1>1, <1>2 DEF Reader
<1>4. \A a \in Address : image'[a] = Meaning(source', line', a)
  BY <1>1, NoMeaning DEF Empty
<1> QED BY <1>3, <1>4 DEF Ready, ImageIsFile

LEMMA SameReader ==
    ASSUME IInv, UNCHANGED reader,
           pc' = "idle" \/ pc' = pc \/ (pc = "opening" /\ pc' = "programming")
    PROVE  Reader' /\ Ready' /\ ImageIsFile'
<1>1. source' = source /\ line' = line /\ image' = image /\ extended' = extended BY DEF reader
<1>2. Reader' BY <1>1 DEF IInv, Reader, Active
<1>3. Ready' BY <1>1 DEF IInv, Ready
<1>4. ImageIsFile' BY <1>1 DEF IInv, ImageIsFile
<1> QED BY <1>2, <1>3, <1>4

(* If one more line is within the addresses, the lines before it are, and  *)
(* the reader's base is theirs.                                            *)
LEMMA NextWithin ==
    ASSUME IInv, pc = "reading", source # NoFile, line < Len(source),
           WithinAddresses(source, line + 1)
    PROVE  /\ WithinAddresses(source, line)
           /\ extended = BaseAt(source, line)
           /\ Current.addr + extended + Length(Current) < AddressSize
<1>1. line \in Nat BY DEF IInv, TypeOK
<1>2. WithinAddresses(source, line)
  <2>1. \A j \in 1 .. line : j \in 1 .. line + 1 BY <1>1
  <2> QED BY <2>1 DEF WithinAddresses
<1>3. extended = BaseAt(source, line) BY <1>2 DEF IInv, Reader, Active
<1>4. Current = source[line + 1] BY DEF Current
<1>5. line + 1 \in 1 .. line + 1 /\ (line + 1) - 1 = line BY <1>1
<1>6. source[line + 1].addr + BaseAt(source, line) + Length(source[line + 1]) < AddressSize
  BY <1>5 DEF WithinAddresses
<1> QED BY <1>2, <1>3, <1>4, <1>6

LEMMA NextLineGood ==
    ASSUME IInv, pc = "reading", source # NoFile, line < Len(source), ~Refused(Current),
           ~SumWrong(Current), WithinAddresses(source, line + 1)
    PROVE  \A j \in 1 .. line + 1 : Good(source, j)
<1>1. line \in Nat BY DEF IInv, TypeOK
<1>2. extended = BaseAt(source, line) /\ \A j \in 1 .. line : Good(source, j)
  BY NextWithin DEF IInv, Reader, Active
<1>3. Current = source[line + 1]
  BY DEF Current
<1>5. Current.frame /\ Current.addr + extended + Length(Current) < MaxMemory
  BY NextWithin, WithinLine DEF IInv
<1>6. Current.code = 0 => Current.sum BY DEF SumWrong
<1>7. (line + 1) - 1 = line BY <1>1
<1>8. Good(source, line + 1) BY <1>2, <1>3, <1>5, <1>6, <1>7 DEF Good
<1>9. \A j \in 1 .. line + 1 : j \in 1 .. line \/ j = line + 1 BY <1>1
<1> QED BY <1>2, <1>8, <1>9

LEMMA DoneReader ==
    ASSUME IInv, pc = "reading", Done
    PROVE  Reader' /\ Ready' /\ ImageIsFile'
<1>0. line \in Nat BY DEF IInv, TypeOK
<1>1. /\ source # NoFile /\ source' = source /\ extended' = extended /\ image' = image
      /\ pc' \in {"opening", "programming"}
  BY DEF Done, ReadDone
<1>2. WithinAddresses(source, line) =>
        /\ extended = BaseAt(source, line)
        /\ \A j \in 1 .. line : Good(source, j) /\ source[j].code # 1
        /\ \A a \in Address : image[a] = Meaning(source, line, a)
  BY <1>1 DEF IInv, Reader, Active, ImageIsFile
<1>3. CASE line = Len(source) /\ line' = line
  <2>1. WithinAddresses(source, line) => Whole(source, line) BY <1>2, <1>3 DEF Whole, Good
  <2> QED BY <1>1, <1>2, <1>3, <2>1 DEF Reader, Ready, ImageIsFile
<1>4. CASE /\ line < Len(source) /\ line' = line + 1
           /\ ~Refused(Current) /\ Current.code = 1
  <2> SUFFICES ASSUME WithinAddresses(source, line + 1)
               PROVE  Reader' /\ Ready' /\ ImageIsFile'
    BY <1>1, <1>4 DEF Reader, Ready, ImageIsFile
  <2>0. WithinAddresses(source, line) BY <1>1, <1>4, NextWithin
  <2>1. Current = source[line + 1] BY DEF Current
  <2>2. \A j \in 1 .. line + 1 : Good(source, j)
    <3>1. ~SumWrong(Current) BY <1>4 DEF SumWrong
    <3> QED BY <1>1, <1>4, <3>1, NextLineGood
  <2>3. \A j \in 1 .. line + 1 : source[j].code = 1 => j = line + 1
    <3>1. \A j \in 1 .. line + 1 : j \in 1 .. line \/ j = line + 1 BY <1>0
    <3> QED BY <3>1, <1>2, <2>0
  <2>4. Whole(source, line + 1) BY <1>4, <2>1, <2>2, <2>3 DEF Whole, Good
  <2>5. BaseAt(source, line + 1) = BaseAt(source, line)
    <3>1. ~SetsBase(source[line + 1]) BY <1>4, <2>1 DEF SetsBase
    <3> QED BY <1>0, <3>1, NextBase
  <2>6. \A a \in Address : Meaning(source, line + 1, a) = Meaning(source, line, a)
    <3>1. \A a \in Address : ~Covers(source, line + 1, a) BY <1>4, <2>1 DEF Covers
    <3> QED BY <1>0, <3>1, NextMeaning
  <2>7. Reader' BY <1>1, <1>2, <1>4, <2>0, <2>2, <2>5 DEF Reader
  <2> QED BY <1>1, <1>2, <1>4, <2>0, <2>4, <2>6, <2>7 DEF Ready, ImageIsFile
<1> QED BY <1>3, <1>4 DEF Done

LEMMA GoesReader ==
    ASSUME IInv, pc = "reading", Goes
    PROVE  Reader' /\ Ready' /\ ImageIsFile'
<1>0. line \in Nat BY DEF IInv, TypeOK
<1>1. /\ source # NoFile /\ source' = source /\ line < Len(source) /\ line' = line + 1
      /\ pc' = "reading" /\ ~Refused(Current) /\ Current.code # 1
  BY DEF Goes
<1> SUFFICES ASSUME WithinAddresses(source, line + 1)
             PROVE  Reader' /\ Ready' /\ ImageIsFile'
  BY <1>1 DEF Reader, Ready, ImageIsFile
<1>10. WithinAddresses(source, line) /\ Current.addr + extended + Length(Current) < AddressSize
  BY <1>1, NextWithin
<1>2. /\ extended = BaseAt(source, line)
      /\ \A j \in 1 .. line : Good(source, j) /\ source[j].code # 1
      /\ \A a \in Address : image[a] = Meaning(source, line, a)
  BY <1>1, <1>10 DEF IInv, Reader, Active, ImageIsFile
<1>3. Current = source[line + 1] BY DEF Current
<1>4. ~SumWrong(Current) BY DEF Goes, SumWrong
<1>5. \A j \in 1 .. line + 1 : Good(source, j) BY <1>1, <1>4, NextLineGood
<1>6. \A j \in 1 .. line + 1 : source[j].code # 1
  <2>1. \A j \in 1 .. line + 1 : j \in 1 .. line \/ j = line + 1 BY <1>0
  <2> QED BY <2>1, <1>1, <1>2, <1>3
<1>7. extended' = BaseAt(source, line + 1)
  <2>1. SetsBase(Current) => Current.code # 0 BY DEF SetsBase
  <2>2. extended' = IF SetsBase(Current) THEN Current.base ELSE extended BY <2>1 DEF Goes
  <2> QED BY <1>0, <1>2, <1>3, <2>2, NextBase
<1>8. ASSUME NEW a \in Address PROVE image'[a] = Meaning(source, line + 1, a)
  <2>1. CASE Current.code # 0
    <3>1. image' = image BY <2>1 DEF Goes
    <3>2. ~Covers(source, line + 1, a) BY <1>3, <2>1 DEF Covers
    <3> QED BY <1>0, <1>2, <3>1, <3>2, NextMeaning
  <2>2. CASE Current.code = 0
    <3> DEFINE first == First(Current)
    <3>1. image' = Stored(Current) BY <2>2 DEF Goes
    <3>2. image'[a] = IF a \in first .. first + Length(Current) - 1
                      THEN Current.data[a - first + 1] ELSE image[a]
      BY <1>1, <1>10, <3>1, WithinLine DEF IInv
    <3>3. Place(source, line + 1) = first
      <4>1. ~SetsBase(source[line + 1]) BY <1>3, <2>2 DEF SetsBase
      <4>2. BaseAt(source, line + 1) = extended BY <1>0, <1>2, <4>1, NextBase
      <4>3. first = Current.addr + extended BY <1>1, <1>10, WithinLine DEF IInv
      <4> QED BY <1>3, <4>2, <4>3 DEF Place
    <3> HIDE DEF first
    <3>4. Covers(source, line + 1, a) <=> a \in first .. first + Length(Current) - 1
      BY <1>3, <2>2, <3>3 DEF Covers
    <3>5. ByteOf(source, line + 1, a) = Current.data[a - first + 1]
      BY <1>3, <3>3 DEF ByteOf
    <3>6. Meaning(source, line + 1, a) =
              IF Covers(source, line + 1, a) THEN ByteOf(source, line + 1, a)
              ELSE Meaning(source, line, a)
      BY <1>0, NextMeaning
    <3> QED BY <1>2, <3>2, <3>4, <3>5, <3>6
  <2> QED BY <2>1, <2>2
<1>9. Reader' BY <1>1, <1>5, <1>6, <1>7 DEF Reader
<1> QED BY <1>1, <1>8, <1>9 DEF Ready, ImageIsFile

(* A line across the last address is not within the addresses.             *)
LEMMA AstrayReader ==
    ASSUME IInv, pc = "reading", Astray
    PROVE  Reader' /\ Ready' /\ ImageIsFile'
<1>1. /\ source # NoFile /\ line < Len(source) /\ source' = source /\ line' = line + 1
      /\ Overruns(Current)
  BY DEF Astray
<1>2. ~WithinAddresses(source', line')
  BY <1>1, NextWithin, WithinLine DEF IInv
<1> QED
  BY <1>1, <1>2 DEF Reader, Ready, ImageIsFile

LEMMA ReaderStep ==
    ASSUME IInv, [Next]_vars
    PROVE  Reader' /\ Ready' /\ ImageIsFile'
<1>1. CASE Read
  <2>1. CASE Fails BY <2>1 DEF Fails, Reader, Active, Ready, ImageIsFile
  <2>2. CASE Done BY <1>1, <2>2, ReadCases, DoneReader
  <2>3. CASE Goes BY <1>1, <2>3, ReadCases, GoesReader
  <2>4. CASE Astray BY <1>1, <2>4, ReadCases, AstrayReader
  <2> QED BY <1>1, <2>1, <2>2, <2>3, <2>4, ReadCases
<1>2. CASE Start
  <2>1. OpenFile /\ pc' = "reading" BY <1>2 DEF Start
  <2> QED BY <2>1, OpenReader
<1>3. CASE Found
  <2>1. CASE waited
    <3>1. OpenFile /\ pc' = "reading" BY <1>3, <2>1 DEF Found
    <3> QED BY <3>1, OpenReader
  <2>2. CASE ~waited
    <3>1. UNCHANGED reader /\ pc = "opening" /\ pc' = "programming" BY <1>3, <2>2 DEF Found
    <3> QED BY <3>1, SameReader
  <2> QED BY <2>1, <2>2
<1>4. CASE RebootSent \/ RebootFails \/ NotFound \/ ProgramBlock \/ WriteFails \/ SkipBlock
           \/ Finish \/ Reset \/ Unplug \/ Plug \/ FileChanges \/ UNCHANGED vars
  <2>1. UNCHANGED reader /\ (pc' = "idle" \/ pc' = pc)
    BY <1>4 DEF RebootSent, RebootFails, NotFound, ProgramBlock, WriteFails, SkipBlock, Finish,
                Reset, Unplug, Plug, FileChanges, vars, End
  <2> QED BY <2>1, SameReader
<1> QED BY <1>1, <1>2, <1>3, <1>4, Steps
-----------------------------------------------------------------------------
(* The type *)

LEMMA OptionTypes ==
    ASSUME TypeOK
    PROVE  /\ [options EXCEPT !.reboot = TRUE] \in LoaderOptions(Chips \cup {ToolCode})
           /\ [options EXCEPT !.reboot = FALSE, !.wait = TRUE] \in LoaderOptions(Chips \cup {ToolCode})
           /\ LoaderOptions({CodeSize}) \subseteq LoaderOptions(Chips \cup {ToolCode})
           /\ CodeSize \in Nat
<1>1. options \in LoaderOptions(Chips \cup {ToolCode}) BY DEF TypeOK
<1>2. CodeSize \in Chips \cup {ToolCode} BY <1>1 DEF LoaderOptions, CodeSize
<1>3. CodeSize \in Nat BY <1>2, SizeFacts
<1>4. LoaderOptions({CodeSize}) \subseteq LoaderOptions(Chips \cup {ToolCode})
  BY <1>2, Zenon DEF LoaderOptions
<1>5. /\ [options EXCEPT !.reboot = TRUE] \in LoaderOptions(Chips \cup {ToolCode})
      /\ [options EXCEPT !.reboot = FALSE, !.wait = TRUE] \in LoaderOptions(Chips \cup {ToolCode})
  BY <1>1 DEF LoaderOptions
<1> QED BY <1>3, <1>4, <1>5

LEMMA OpenType ==
    ASSUME TypeOK, OpenFile
    PROVE  /\ source' \in Files \cup {NoFile} /\ line' \in Nat /\ extended' \in Nat
           /\ image' \in [Address -> Byte \cup {None}]
BY DEF TypeOK, OpenFile, Empty

LEMMA ReadType ==
    ASSUME TypeOK, Read
    PROVE  TypeOK'
<1>1. UNCHANGED <<program, options, waited, file, block, board, counts>> BY ReadCases
<1>2. line \in Nat /\ line' \in Nat
  <2>1. line \in Nat BY DEF TypeOK
  <2>2. line' \in {line, line + 1} BY ReadCases DEF Fails, Done, Goes, Astray
  <2> QED BY <2>1, <2>2
<1>3. image' \in [Address -> Byte \cup {None}]
  <2>1. image \in [Address -> Byte \cup {None}] BY DEF TypeOK
  <2> QED BY <2>1, ReadCases, StoredType, OverwrittenType DEF Fails, Done, Goes, Astray
<1>4. extended' \in Nat
  <2>1. \/ extended' = extended \/ extended' \in Strays
        \/ source # NoFile /\ line < Len(source) /\ extended' = Current.base
    BY ReadCases DEF Fails, Done, Goes, Astray, ReadDone
  <2> QED BY <2>1, LineType, SizeFacts DEF TypeOK
<1>5. source' = source /\ pc' \in {"idle", "reading", "opening", "programming"}
  BY ReadCases DEF Fails, Done, Goes, Astray, ReadDone
<1>6. result' = result \/ result' \in {"killed", "read failed", "reread failed"}
  BY ReadCases DEF Fails, Done, Goes, Astray, ReadDone
<1>7. waited' \in BOOLEAN BY <1>1, Zenon DEF TypeOK
<1> QED BY <1>1, <1>2, <1>3, <1>4, <1>5, <1>6, <1>7 DEF TypeOK, board, counts

LEMMA TypeStep ==
    ASSUME TypeOK, [Next]_vars
    PROVE  TypeOK'
<1>1. CASE Start
  <2>1. options' \in LoaderOptions(Chips \cup {ToolCode})
    BY <1>1, OptionTypes DEF Start
  <2>2. waited' \in BOOLEAN BY <1>1, Zenon DEF Start
  <2>3. tries' \in 0 .. MaxTries
    <3>1. tries \in 0 .. MaxTries BY DEF TypeOK
    <3>2. tries < MaxTries /\ tries' = tries + 1 BY <1>1 DEF Start
    <3> QED BY <3>1, <3>2, BoundsAssumption
  <2>4. OpenFile /\ pc' = "reading" /\ result' = "none" /\ block' = 0
        /\ UNCHANGED <<program, file, board, unplugs>>
    BY <1>1, Zenon DEF Start
  <2> QED BY <2>1, <2>2, <2>3, <2>4, OpenType DEF TypeOK, board
<1>2. CASE Read BY <1>2, ReadType
<1>3. CASE Found
  <2>1. /\ source' \in Files \cup {NoFile} /\ line' \in Nat /\ extended' \in Nat
        /\ image' \in [Address -> Byte \cup {None}]
    BY <1>3, OpenType DEF Found, TypeOK, reader
  <2>2. pc' \in {"reading", "programming"} BY <1>3 DEF Found
  <2>3. waited' \in BOOLEAN BY <1>3, Zenon DEF Found, TypeOK
  <2> QED BY <1>3, <2>1, <2>2, <2>3 DEF Found, TypeOK, board, counts
<1>4. CASE RebootSent
  <2>1. waited' \in BOOLEAN BY <1>4, Zenon DEF RebootSent
  <2>2. mode' \in {"app", "resetting", "boot", "unplugged"} BY <1>4 DEF RebootSent
  <2> QED BY <1>4, <2>1, <2>2, OptionTypes DEF RebootSent, TypeOK, reader, counts
<1>5. CASE RebootFails
  <2>1. waited' \in BOOLEAN BY <1>5, Zenon DEF RebootFails, TypeOK
  <2>2. mode' \in {"app", "resetting", "boot", "unplugged"} BY <1>5 DEF RebootFails, TypeOK
  <2> QED BY <1>5, <2>1, <2>2 DEF RebootFails, End, TypeOK, reader, counts
<1>6. CASE NotFound
  <2>1. waited' \in BOOLEAN BY <1>6, Zenon DEF NotFound, TypeOK
  <2>2. pc' \in {"idle", "opening"} /\ (result' = result \/ result' = "not found")
    BY <1>6 DEF NotFound, End
  <2> QED BY <1>6, <2>1, <2>2 DEF NotFound, TypeOK, reader, board, counts
<1>7. CASE ProgramBlock
  <2>1. waited' \in BOOLEAN BY <1>7, Zenon DEF ProgramBlock, TypeOK
  <2>2. flash' \in [Address -> Byte] BY <1>7, WritesFacts DEF ProgramBlock
  <2>3. block' \in Nat
    <3>1. block \in Nat BY DEF TypeOK
    <3>2. block' = block + BlockSize BY <1>7 DEF ProgramBlock
    <3> QED BY <3>1, <3>2, SizeFacts
  <2> QED BY <1>7, <2>1, <2>2, <2>3 DEF ProgramBlock, TypeOK, reader, counts
<1>8. CASE WriteFails
  <2>1. waited' \in BOOLEAN BY <1>8, Zenon DEF WriteFails, TypeOK
  <2>2. flash' \in [Address -> Byte]
    <3>1. flash \in [Address -> Byte] BY DEF TypeOK
    <3>2. flash' = flash \/ flash' \in Writes(block) BY <1>8 DEF WriteFails
    <3> QED BY <3>1, <3>2, WritesFacts
  <2> QED BY <1>8, <2>1, <2>2 DEF WriteFails, End, TypeOK, reader, counts
<1>9. CASE SkipBlock
  <2>1. waited' \in BOOLEAN BY <1>9, Zenon DEF SkipBlock, TypeOK
  <2>2. block' \in Nat
    <3>1. block \in Nat BY DEF TypeOK
    <3>2. block' = block + BlockSize BY <1>9 DEF SkipBlock
    <3> QED BY <3>1, <3>2, SizeFacts
  <2> QED BY <1>9, <2>1, <2>2 DEF SkipBlock, TypeOK, reader, board, counts
<1>10. CASE Finish
  <2>1. waited' \in BOOLEAN BY <1>10, Zenon DEF Finish, TypeOK
  <2>2. mode' \in {"app", "resetting", "boot", "unplugged"} BY <1>10 DEF Finish, TypeOK
  <2> QED BY <1>10, <2>1, <2>2 DEF Finish, End, TypeOK, reader, counts
<1>11. CASE Reset \/ Plug \/ UNCHANGED vars
  <2>1. waited' \in BOOLEAN BY <1>11, Zenon DEF Reset, Plug, vars, TypeOK
  <2>2. mode' \in {"app", "resetting", "boot", "unplugged"}
    BY <1>11 DEF Reset, Plug, vars, board, TypeOK
  <2> QED BY <1>11, <2>1, <2>2 DEF Reset, Plug, vars, TypeOK, reader, board, counts
<1>12. CASE Unplug
  <2>1. waited' \in BOOLEAN BY <1>12, Zenon DEF Unplug, TypeOK
  <2>2. unplugs' \in 0 .. MaxUnplugs
    <3>1. unplugs \in 0 .. MaxUnplugs BY DEF TypeOK
    <3>2. unplugs < MaxUnplugs /\ unplugs' = unplugs + 1 BY <1>12 DEF Unplug
    <3> QED BY <3>1, <3>2, BoundsAssumption
  <2> QED BY <1>12, <2>1, <2>2 DEF Unplug, TypeOK, reader
<1>13. CASE FileChanges
  <2>1. waited' \in BOOLEAN BY <1>13, Zenon DEF FileChanges, TypeOK
  <2> QED BY <1>13, <2>1 DEF FileChanges, TypeOK, reader, board, counts
<1> QED BY <1>1, <1>2, <1>3, <1>4, <1>5, <1>6, <1>7, <1>8, <1>9, <1>10, <1>11, <1>12, <1>13, Steps
-----------------------------------------------------------------------------
(* What was programmed *)

LEMMA AlignedStep ==
    ASSUME IInv, [Next]_vars
    PROVE  Aligned'
<1>1. CASE block' = block BY <1>1 DEF IInv, Aligned
<1>2. CASE block' = 0
  <2>1. 0 * BlockSize = 0 BY SizeFacts
  <2> QED BY <1>2, <2>1 DEF Aligned
<1>3. CASE block' = block + BlockSize
  <2>1. PICK k \in Nat : block = k * BlockSize BY DEF IInv, Aligned
  <2>2. k * BlockSize + BlockSize = (k + 1) * BlockSize BY SizeFacts
  <2> QED BY <1>3, <2>1, <2>2 DEF Aligned
<1>4. block' = block \/ block' = 0 \/ block' = block + BlockSize
  BY Steps, ReadCases DEF Start, Found, RebootSent, RebootFails, NotFound,
     ProgramBlock, WriteFails, SkipBlock, Finish, Reset, Unplug, Plug, FileChanges, vars
<1> QED BY <1>1, <1>2, <1>3, <1>4

LEMMA FreshStep ==
    ASSUME IInv, [Next]_vars
    PROVE  Fresh'
<1>1. pc' # "idle" => result' = "none" \/ (pc # "idle" /\ result' = result)
  <2>1. CASE Read BY <2>1, ReadCases DEF Fails, Done, Goes, Astray, ReadDone
  <2>2. CASE ~Read
    BY <2>2, Steps DEF Start, Found, RebootSent, RebootFails, NotFound, End,
       ProgramBlock, WriteFails, SkipBlock, Finish, Reset, Unplug, Plug, FileChanges, vars
  <2> QED BY <2>1, <2>2
<1> QED BY <1>1 DEF IInv, Fresh

\* The block at hand has what the file says of it, programmed or skipped.
LEMMA NextKept ==
    ASSUME IInv, pc = "programming", Kept(block), WithinAddresses(source, line),
           \/ flash' \in Writes(block)
           \/ flash' = flash /\ ~WithinRange(block),
           UNCHANGED reader
    PROVE  \A a \in Address :
               a < block + BlockSize /\ a < MaxMemory - BlockSize /\ Meaning(source, line, a) # None =>
                   flash'[a] = Meaning(source, line, a)
<1> SUFFICES ASSUME NEW a \in Address, a < block + BlockSize, a < MaxMemory - BlockSize,
                    Meaning(source, line, a) # None
             PROVE  flash'[a] = Meaning(source, line, a)
  OBVIOUS
<1>1. a \in Nat /\ block \in Nat BY SizeFacts DEF IInv, TypeOK
<1>2. image[a] = Meaning(source, line, a) BY DEF IInv, Ready, ImageIsFile
<1>3. CASE a < block
  <2>1. flash[a] = Meaning(source, line, a) BY <1>3 DEF Kept
  <2>2. flash'[a] = flash[a] BY <1>1, <1>3, SizeFacts, WritesFacts DEF IInv
  <2> QED BY <2>1, <2>2
<1>4. CASE block <= a
  <2>1. block + BlockSize < MaxMemory BY <1>1, <1>4, SizeFacts
  <2>2. a \in Page(block) BY <1>4 DEF Page
  <2>3. WithinRange(block) BY <1>1, <1>2, <2>1, <2>2, SizeFacts DEF WithinRange
  <2>4. flash' \in Writes(block) BY <2>3
  <2> QED BY <1>1, <1>2, <1>4, <2>1, <2>4, SizeFacts, WritesFacts DEF IInv
<1> QED BY <1>1, <1>3, <1>4

LEMMA WrittenStep ==
    ASSUME IInv, [Next]_vars
    PROVE  Written'
<1>0. Written /\ block \in Nat BY DEF IInv, TypeOK
<1>1. CASE Read
  <2>1. pc = "reading" /\ block' = block BY <1>1, ReadCases
  <2>2. block' = 0 BY <2>1, <1>0 DEF Written
  <2> QED BY <2>2, SizeFacts DEF Written, Kept
<1>2. CASE Start BY <1>2 DEF Start, Written
<1>3. CASE Found
  <2>1. block' = 0 BY <1>0, <1>3 DEF Found, Written
  <2> QED BY <2>1, SizeFacts DEF Written, Kept
<1>4. CASE ProgramBlock \/ SkipBlock
  <2>1. pc = "programming" /\ pc' = "programming" /\ block' = block + BlockSize /\ UNCHANGED reader
    BY <1>4 DEF ProgramBlock, BlockIsNext, SkipBlock
  <2>2. flash' \in Writes(block) \/ (flash' = flash /\ ~WithinRange(block))
    BY <1>4 DEF ProgramBlock, SkipBlock, board
  <2>3. WithinAddresses(source, line) => Kept(block) BY <1>0, <2>1 DEF Written
  <2>4. source' = source /\ line' = line BY <2>1 DEF reader
  <2> QED BY <2>1, <2>2, <2>3, <2>4, NextKept DEF Written, Kept
<1>5. CASE RebootFails \/ WriteFails \/ Finish
  <2>1. pc' = "idle" BY <1>5 DEF RebootFails, WriteFails, Finish, End
  <2> QED BY <2>1 DEF Written
<1>6. CASE RebootSent \/ NotFound \/ Reset \/ Unplug \/ Plug \/ FileChanges \/ UNCHANGED vars
  <2>1. (pc' = pc \/ pc' = "idle") /\ UNCHANGED <<block, source, line, flash>>
    BY <1>6 DEF RebootSent, NotFound, Reset, Unplug, Plug, FileChanges, vars, End, reader, board
  <2> QED BY <1>0, <2>1 DEF Written, Kept
<1> QED BY <1>1, <1>2, <1>3, <1>4, <1>5, <1>6, Steps

LEMMA UpdatedStep ==
    ASSUME IInv, [Next]_vars
    PROVE  UpdatedMeansProgrammed'
<1>1. CASE Finish
  <2>1. pc = "programming" /\ block >= CodeSize /\ UNCHANGED <<options, source, line, flash>>
    BY <1>1 DEF Finish, reader
  <2>2. WithinAddresses(source, line) => Kept(block) BY <2>1 DEF IInv, Written
  <2>3. CodeSize \in 1 .. MaxMemory /\ CodeSize' = CodeSize
    <3>1. options \in LoaderOptions(Chips \cup {ToolCode}) BY DEF IInv, TypeOK
    <3>2. CodeSize \in Chips \cup {ToolCode} BY <3>1 DEF LoaderOptions, CodeSize
    <3> QED BY <2>1, <3>2, SizeFacts DEF CodeSize
  <2>4. block \in Nat BY DEF IInv, TypeOK
  <2>5. \A a \in 0 .. CodeSize - 1 : a \in Address /\ a < block
    BY <2>1, <2>3, <2>4, SizeFacts DEF Address
  <2> QED BY <2>1, <2>2, <2>3, <2>5 DEF Kept, UpdatedMeansProgrammed
<1>2. CASE result' # "updated" BY <1>2 DEF UpdatedMeansProgrammed
<1>3. CASE ~Finish /\ result' = "updated"
  <2>1. pc = "idle" => ~(Read \/ Found \/ RebootSent \/ RebootFails \/ NotFound
                         \/ ProgramBlock \/ WriteFails \/ SkipBlock)
    BY ReadCases DEF Found, RebootSent, RebootFails, NotFound, ProgramBlock, WriteFails,
                     SkipBlock, BlockIsNext
  <2>2. pc = "idle"
    <3>1. CASE Read
      <4>1. result' = result \/ result' \in {"killed", "read failed", "reread failed"}
        BY <3>1, ReadCases DEF Fails, Done, Goes, Astray, ReadDone
      <4> QED BY <1>3, <4>1 DEF IInv, Fresh
    <3>2. CASE ~Read
      <4>1. result' = result
        BY <1>3, <3>2, Steps DEF Start, Found, RebootSent, RebootFails, NotFound, End, ProgramBlock,
           WriteFails, SkipBlock, Reset, Unplug, Plug, FileChanges, vars
      <4> QED BY <1>3, <4>1 DEF IInv, Fresh
    <3> QED BY <3>1, <3>2
  <2>3. ~Start BY <1>3 DEF Start
  <2>4. UNCHANGED <<result, options, source, line, flash>>
    BY <1>3, <2>1, <2>2, <2>3, Steps DEF Reset, Unplug, Plug, FileChanges, vars, reader, board
  <2> QED BY <2>4 DEF IInv, UpdatedMeansProgrammed, CodeSize
<1> QED BY <1>1, <1>2, <1>3

LEMMA Inductive ==
    ASSUME IInv, [Next]_vars
    PROVE  IInv'
<1>1. TypeOK' BY TypeStep DEF IInv
<1> QED BY <1>1, ReaderStep, AlignedStep, FreshStep, WrittenStep, UpdatedStep DEF IInv

LEMMA Invariance == Spec => []IInv
<1>1. Init => IInv BY InitOK
<1>2. IInv /\ [Next]_vars => IInv' BY Inductive
<1> QED BY <1>1, <1>2, PTL DEF Spec
-----------------------------------------------------------------------------
(* A block that is not the last of the memory ends before the last begins. *)
LEMMA BeforeLast ==
    ASSUME IInv, block + BlockSize < MaxMemory
    PROVE  block + BlockSize <= MaxMemory - BlockSize
<1>1. PICK k \in Nat : block = k * BlockSize BY DEF IInv, Aligned
<1>2. PICK m \in Nat : MaxMemory = m * BlockSize BY SizesAssumption
<1>3. CASE k + 1 < m
  <2>1. PICK d \in Nat : m = k + 2 + d
    <3>1. m - (k + 2) \in Nat /\ m = k + 2 + (m - (k + 2)) BY <1>3
    <3> QED BY <3>1
  <2>2. d * BlockSize \in Nat BY SizeFacts
  <2>3. m * BlockSize = k * BlockSize + (2 * BlockSize) + (d * BlockSize) BY <2>1, SizeFacts
  <2>4. k * BlockSize \in Nat BY SizeFacts
  <2> QED BY <1>1, <1>2, <2>2, <2>3, <2>4, SizeFacts
<1>4. CASE m <= k + 1
  <2>1. PICK d \in Nat : k + 1 = m + d
    <3>1. (k + 1) - m \in Nat /\ k + 1 = m + ((k + 1) - m) BY <1>4
    <3> QED BY <3>1
  <2>2. d * BlockSize \in Nat BY SizeFacts
  <2>3. (k * BlockSize) + BlockSize = (m * BlockSize) + (d * BlockSize)
    <3>1. (k + 1) * BlockSize = (k * BlockSize) + BlockSize BY SizeFacts
    <3>2. (m + d) * BlockSize = (m * BlockSize) + (d * BlockSize) BY SizeFacts
    <3> QED BY <2>1, <3>1, <3>2
  <2>4. k * BlockSize \in Nat BY SizeFacts
  <2> QED BY <1>1, <1>2, <2>2, <2>3, <2>4, SizeFacts
<1> QED BY <1>3, <1>4

LEMMA FlashOK ==
    ASSUME IInv, [Next]_vars
    PROVE  FlashStep
<1> SUFFICES ASSUME flash' # flash PROVE FlashStep
  BY DEF FlashStep
<1>1. pc = "programming" /\ flash' \in Writes(block)
  <2>1. CASE Read BY <2>1, ReadCases DEF board
  <2>2. CASE ~Read
    BY <2>2, Steps DEF Start, Found, RebootSent, RebootFails, NotFound, ProgramBlock, WriteFails,
       BlockIsNext, SkipBlock, Finish, Reset, Unplug, Plug, FileChanges, vars, board
  <2> QED BY <2>1, <2>2
<1>2. source # NoFile /\ (WithinAddresses(source, line) => Whole(source, line))
  BY <1>1 DEF IInv, Ready
<1>3. ASSUME WithinAddresses(source, line), NEW a \in Address, flash'[a] # flash[a]
      PROVE  flash'[a] = Says(a) \/ (block = 0 /\ a \notin Page(0) /\ flash'[a] = Blank)
  <2>1. a \in Nat /\ block \in Nat BY SizeFacts DEF IInv, TypeOK
  <2>2. CASE ~(block <= a /\ a < block + BlockSize)
    <3>1. block = 0 /\ flash'[a] = Blank BY <1>1, <1>3, <2>2, WritesFacts DEF IInv
    <3>2. a \notin Page(0) BY <2>1, <2>2, <3>1 DEF Page
    <3> QED BY <3>1, <3>2
  <2>3. CASE block <= a /\ a < block + BlockSize
    <3>1. flash'[a] = IF block + BlockSize >= MaxMemory \/ image[a] = None THEN Blank ELSE image[a]
      BY <1>1, <2>3, WritesFacts DEF IInv
    <3>2. image[a] = Meaning(source, line, a) BY <1>1, <1>2, <1>3 DEF IInv, ImageIsFile
    <3>3. block + BlockSize >= MaxMemory <=> a >= MaxMemory - BlockSize
      BY <2>1, <2>3, SizeFacts, BeforeLast
    <3> QED BY <3>1, <3>2, <3>3 DEF Says
  <2> QED BY <2>2, <2>3
<1> QED BY <1>2, <1>3 DEF FlashStep

(* TypeOK, for every memory and set of files, lines across the last        *)
(* address among them: whatever the image became, the flash gets bytes.    *)
THEOREM TypeCorrect == Spec => []TypeOK
<1>1. IInv => TypeOK BY DEF IInv
<1> QED BY Invariance, <1>1, PTL

(* ImageIsFile, for every set of files: the state that parse_hex_line      *)
(* carries from line to line holds exactly what the lines read so far mean,*)
(* until one of them reaches across the last 32-bit address.               *)
THEOREM ReadsWhatFileMeans == Spec => []ImageIsFile
<1>1. IInv => ImageIsFile BY DEF IInv
<1> QED BY Invariance, <1>1, PTL

(* UpdatedMeansProgrammed, for every memory and code size, set of files    *)
(* and number of updates that failed before, erased the chip or read a     *)
(* file with a line across the last address: the file at hand has none.    *)
THEOREM UpdatedIsProgrammed == Spec => []UpdatedMeansProgrammed
<1>1. IInv => UpdatedMeansProgrammed BY DEF IInv
<1> QED BY Invariance, <1>1, PTL

(* FlashOnlyFromWholeFile: unless a line of the file reaches across the    *)
(* last address, a byte of the board is only ever changed to what a file   *)
(* that was read to its end and found in order says of it, or erased when  *)
(* the first block is written.                                             *)
THEOREM OnlyWholeFilesFlashed == Spec => FlashOnlyFromWholeFile
<1>1. IInv /\ [Next]_vars => FlashStep BY FlashOK
<1> QED BY Invariance, <1>1, PTL DEF Spec, FlashOnlyFromWholeFile
-----------------------------------------------------------------------------
(* The steps behind UpdateEnds: an update that goes on comes nearer to its *)
(* end with every step of the program but a turn of the loop that waits,   *)
(* and the tool waits only for a board that is on its way.                 *)

\* What is ahead of the program, and how much is left of where it is.
Stage ==
    CASE pc = "reading" /\ ~waited          -> 5
      [] pc = "opening" /\ options.reboot   -> 4
      [] pc = "opening" /\ ~options.reboot  -> 3
      [] pc = "reading" /\ waited           -> 2
      [] pc = "programming"                 -> 1
      [] OTHER                              -> 0

Rest ==
    IF pc = "reading" THEN IF source = NoFile THEN 0 ELSE Len(source) - line
    ELSE IF pc = "programming" /\ block < CodeSize THEN CodeSize - block
    ELSE 0

Nearer == Stage' < Stage \/ (Stage' = Stage /\ Rest' < Rest)

\* A turn of the loop of Bootloader.c:60-84 that finds no bootloader.
Waits == pc = "opening" /\ mode # "boot" /\ ~options.reboot /\ options.wait

(* No step of the program takes it back, though it reads the file a second *)
(* time, and neither the board nor its user nor the disk does; and what    *)
(* does not bring it nearer to its end is a turn of the loop that waits.   *)
UpdateComesNearer ==
    [][pc # "idle" => \/ Nearer
                      \/ UNCHANGED <<Stage, Rest>> /\ (Host => Waits)]_vars

(* The tool, which has no timeout, waits only for a board that obeyed its  *)
(* reset command or is a bootloader already, or was unplugged.             *)
WaitsForBoard ==
    program = "tool" /\ Waits => mode = "resetting" \/ unplugs > 0

\* A tool that has not sent its reset command is still going to, and a board
\* that was sent it obeys.
Obeyed ==
    program = "tool" =>
        /\ pc = "reading" /\ ~waited => options.reboot
        /\ pc = "opening" /\ ~options.reboot /\ unplugs = 0 => mode \in {"resetting", "boot"}

LEMMA StageIs ==
    /\ pc = "reading" /\ ~waited => Stage = 5
    /\ pc = "opening" /\ options.reboot => Stage = 4
    /\ pc = "opening" /\ ~options.reboot => Stage = 3
    /\ pc = "reading" /\ waited => Stage = 2
    /\ pc = "programming" => Stage = 1
BY Zenon DEF Stage

LEMMA StageNext ==
    /\ pc' = "opening" /\ options'.reboot => Stage' = 4
    /\ pc' = "opening" /\ ~options'.reboot => Stage' = 3
    /\ pc' = "reading" /\ waited' => Stage' = 2
    /\ pc' = "programming" => Stage' = 1
    /\ pc' = "idle" => Stage' = 0
BY Zenon DEF Stage

\* What Stage and Rest depend on.
Progress == <<options, pc, waited, source, line, block>>

LEMMA SameProgress == UNCHANGED Progress => UNCHANGED <<Stage, Rest>>
<1> SUFFICES ASSUME UNCHANGED Progress PROVE UNCHANGED <<Stage, Rest>>
  OBVIOUS
<1>1. /\ options' = options /\ pc' = pc /\ waited' = waited
      /\ source' = source /\ line' = line /\ block' = block
  BY DEF Progress
<1>2. Stage' = Stage
  BY <1>1, Zenon DEF Stage
<1>3. Rest' = Rest
  BY <1>1, Zenon DEF Rest, CodeSize
<1> QED
  BY <1>2, <1>3

\* A step from a later stage to the end of the update.
LEMMA EndIsNearer ==
    ASSUME pc \in {"reading", "opening", "programming"}, pc' = "idle", TypeOK
    PROVE  Nearer
<1>1. Stage \in {5, 4, 3, 2, 1}
  <2>1. waited \in BOOLEAN
    BY DEF TypeOK
  <2> QED
    BY <2>1, StageIs, Zenon
<1>2. Stage' = 0
  BY StageNext
<1> QED
  BY <1>1, <1>2 DEF Nearer

LEMMA ReadNearer ==
    ASSUME TypeOK, Read
    PROVE  Nearer
<1>1. pc = "reading" /\ UNCHANGED <<options, waited, block>>
  BY ReadCases
<1>2. CASE pc' = "idle"
  BY <1>1, <1>2, EndIsNearer
<1>3. CASE ReadDone
  <2>1. pc' = IF waited THEN "programming" ELSE "opening"
    BY <1>3 DEF ReadDone
  <2>2. CASE waited
    BY <1>1, <2>1, <2>2, StageIs, StageNext DEF Nearer
  <2>3. CASE ~waited
    BY <1>1, <2>1, <2>3, StageIs, StageNext DEF Nearer
  <2> QED
    BY <2>2, <2>3
<1>4. CASE source # NoFile /\ line < Len(source) /\ line' = line + 1 /\ UNCHANGED <<pc, source>>
  <2>1. source # NoFile /\ line < Len(source) /\ line' = line + 1 /\ UNCHANGED <<pc, source>>
    BY <1>4
  <2>2. Stage' = Stage
    BY <1>1, <2>1, Zenon DEF Stage
  <2>3. Rest = Len(source) - line /\ Rest' = Len(source) - (line + 1)
    BY <1>1, <2>1 DEF Rest
  <2>4. Len(source) \in Nat /\ line \in Nat
    <3>1. source \in Seq(Lines)
      BY <2>1, FilesAssumption DEF TypeOK
    <3>2. Len(source) \in Nat
      BY <3>1
    <3>3. line \in Nat
      BY DEF TypeOK
    <3> QED
      BY <3>2, <3>3
  <2> QED
    BY <2>2, <2>3, <2>4 DEF Nearer
<1> QED
  BY <1>2, <1>3, <1>4, ReadCases DEF Fails, Done, Goes, Astray

\* The block at hand is dealt with, one way or the other.
LEMMA BlockNearer ==
    ASSUME TypeOK, pc = "programming", pc' = pc, block < CodeSize,
           block' = block + BlockSize, UNCHANGED options
    PROVE  Nearer
<1>1. Stage = 1 /\ Stage' = 1
  BY StageIs, StageNext
<1>2. block \in Nat /\ CodeSize \in Nat /\ BlockSize \in Nat \ {0} /\ CodeSize' = CodeSize
  <2>1. options.code \in Chips \cup {ToolCode}
    BY DEF TypeOK, LoaderOptions
  <2>2. block \in Nat
    BY DEF TypeOK
  <2>3. options.code \in Nat /\ BlockSize \in Nat \ {0}
    BY <2>1, SizeFacts
  <2>4. CodeSize' = CodeSize
    BY DEF CodeSize
  <2> QED
    BY <2>2, <2>3, <2>4 DEF CodeSize
<1>3. Rest = CodeSize - block
  BY DEF Rest
<1>4. Rest' = IF block' < CodeSize THEN CodeSize - block' ELSE 0
  BY <1>2 DEF Rest
<1> QED
  BY <1>1, <1>2, <1>3, <1>4 DEF Nearer

LEMMA HostNearer ==
    ASSUME TypeOK, Host, pc # "idle"
    PROVE  Nearer \/ (UNCHANGED <<Stage, Rest>> /\ Waits)
<1>0. options \in LoaderOptions(Chips \cup {ToolCode}) /\ waited \in BOOLEAN
  BY DEF TypeOK
<1>1. CASE Read
  BY <1>1, ReadNearer
<1>2. CASE Found
  <2>1. Stage \in {3, 4}
    BY <1>2, StageIs, Zenon DEF Found
  <2>2. Stage' \in {2, 1}
    <3>1. CASE waited
      BY <1>2, <3>1, StageNext DEF Found
    <3>2. CASE ~waited
      BY <1>2, <3>2, StageNext DEF Found
    <3> QED
      BY <3>1, <3>2
  <2> QED
    BY <2>1, <2>2 DEF Nearer
<1>3. CASE RebootSent
  <2>1. Stage = 4
    BY <1>3, StageIs DEF RebootSent
  <2>2. ~options'.reboot /\ pc' = "opening"
    BY <1>0, <1>3 DEF RebootSent, LoaderOptions
  <2>3. Stage' = 3
    BY <2>2, StageNext
  <2> QED
    BY <2>1, <2>3 DEF Nearer
<1>4. CASE NotFound
  <2>1. CASE options.wait
    <3>1. Waits /\ UNCHANGED <<options, pc, source, line, block>>
      BY <1>4, <2>1 DEF NotFound, Waits, reader
    <3>2. Stage = 3 /\ Stage' = 3
      BY <3>1, StageIs, StageNext DEF Waits
    <3>3. Rest = 0 /\ Rest' = 0
      BY <3>1 DEF Waits, Rest
    <3> QED
      BY <3>1, <3>2, <3>3
  <2>2. CASE ~options.wait
    BY <1>4, <2>2, EndIsNearer DEF NotFound, End
  <2> QED
    BY <2>1, <2>2
<1>5. CASE ProgramBlock
  BY <1>5, BlockNearer DEF ProgramBlock, BlockIsNext
<1>6. CASE SkipBlock
  BY <1>6, BlockNearer DEF SkipBlock
<1>7. CASE RebootFails \/ WriteFails \/ Finish
  BY <1>7, EndIsNearer DEF RebootFails, WriteFails, BlockIsNext, Finish, End
<1> QED
  BY <1>1, <1>2, <1>3, <1>4, <1>5, <1>6, <1>7 DEF Host, Start

(* UpdateComesNearer, for every set of files, memory and block size: an    *)
(* update is a bounded number of steps and of turns of the loop that       *)
(* waits, whatever the file became between its two reads.                  *)
THEOREM UpdateNeverTurnsBack == Spec => UpdateComesNearer
<1>1. TypeOK /\ [Next]_vars =>
        [pc # "idle" => \/ Nearer
                        \/ UNCHANGED <<Stage, Rest>> /\ (Host => Waits)]_vars
  <2> SUFFICES ASSUME TypeOK, Next, pc # "idle"
               PROVE  Nearer \/ (UNCHANGED <<Stage, Rest>> /\ (Host => Waits))
    OBVIOUS
  <2>1. CASE Host
    BY <2>1, HostNearer
  <2>2. CASE ~Host
    <3>1. UNCHANGED Progress
      BY <2>2, Zenon DEF Next, Reset, Unplug, Plug, FileChanges, Progress, reader
    <3> QED
      BY <2>2, <3>1, SameProgress
  <2> QED
    BY <2>1, <2>2
<1> QED
  BY <1>1, TypeCorrect, PTL DEF Spec, UpdateComesNearer

LEMMA CountFacts == TypeOK => unplugs \in Nat
<1>1. TypeOK => unplugs \in 0 .. MaxUnplugs
  BY Zenon DEF TypeOK
<1> QED
  BY <1>1, BoundsAssumption

LEMMA ObeyedStep ==
    ASSUME TypeOK, Obeyed, [Next]_vars
    PROVE  Obeyed'
<1> SUFFICES ASSUME program' = "tool" PROVE Obeyed'
  BY DEF Obeyed
<1>1. program = "tool" /\ options \in LoaderOptions(Chips \cup {ToolCode})
  <2>1. program' = program
    BY Steps, ReadCases, Zenon DEF Start, Found, RebootSent, RebootFails, NotFound, ProgramBlock,
      WriteFails, SkipBlock, Finish, Reset, Unplug, Plug, FileChanges, vars
  <2> QED
    BY <2>1 DEF TypeOK
<1>2. CASE Start
  BY <1>1, <1>2 DEF Start, Obeyed, LoaderOptions
<1>3. CASE Read
  BY <1>1, <1>3, ReadCases DEF Obeyed, Fails, Done, Goes, Astray, ReadDone, board, counts
<1>4. CASE Found
  BY <1>1, <1>4 DEF Obeyed, Found, board, counts
<1>5. CASE RebootSent
  <2>1. mode' = "resetting" /\ pc' = "opening"
    BY <1>1, <1>5 DEF RebootSent, Obeys
  <2> QED
    BY <2>1 DEF Obeyed
<1>6. CASE RebootFails \/ WriteFails \/ Finish
  BY <1>6 DEF Obeyed, RebootFails, WriteFails, Finish, End
<1>7. CASE NotFound
  BY <1>1, <1>7 DEF Obeyed, NotFound, End, board, counts
<1>8. CASE ProgramBlock \/ SkipBlock
  BY <1>1, <1>8 DEF Obeyed, ProgramBlock, BlockIsNext, SkipBlock
<1>9. CASE Reset \/ Unplug \/ Plug
  <2>1. unplugs \in Nat
    BY CountFacts
  <2>2. CASE Reset
    BY <1>1, <2>2 DEF Obeyed, Reset, counts
  <2>3. CASE Unplug
    BY <1>1, <2>1, <2>3 DEF Obeyed, Unplug
  <2>4. CASE Plug
    BY <1>1, <2>4 DEF Obeyed, Plug, counts
  <2> QED
    BY <1>9, <2>2, <2>3, <2>4
<1>10. CASE FileChanges \/ UNCHANGED vars
  BY <1>1, <1>10 DEF Obeyed, FileChanges, vars, board, counts
<1> QED
  BY Steps, <1>2, <1>3, <1>4, <1>5, <1>6, <1>7, <1>8, <1>9, <1>10

(* WaitsForBoard: the wait that has no timeout (Bootloader.c:60) is for a  *)
(* board that took the reset command, unless somebody unplugged it.        *)
THEOREM ToolWaitsForItsBoard == Spec => []WaitsForBoard
<1>1. Init => Obeyed
  BY DEF Init, Obeyed
<1>2. TypeOK /\ Obeyed => WaitsForBoard
  BY CountFacts DEF Obeyed, WaitsForBoard, Waits
<1> QED
  BY <1>1, <1>2, ObeyedStep, TypeCorrect, PTL DEF Spec
=============================================================================
