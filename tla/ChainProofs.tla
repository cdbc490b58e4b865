----------------------------- MODULE ChainProofs -----------------------------
(***************************************************************************)
(* Proofs about ChainLoader for every radix, every set of files and every   *)
(* number of kills and resets: the size arrives as it was sent, and the     *)
(* kernel that is started is one file, whole and in order.                  *)
(***************************************************************************)
EXTENDS ChainLoader, SequenceTheorems, TLAPS

Spec == Init /\ [][Next]_vars

-----------------------------------------------------------------------------
(* Arithmetic: four bytes carry a number modulo Wrap *)

\* A number is its last digit and the rest.
LEMMA LastDigit ==
    ASSUME NEW n \in Nat, NEW b \in Nat \ {0}
    PROVE  n \div b \in Nat /\ n % b \in 0 .. b - 1 /\ n = b * (n \div b) + (n % b)
<1>1. n \div b \in Nat OBVIOUS
<1>2. n % b \in 0 .. b - 1 OBVIOUS
<1>3. n = b * (n \div b) + (n % b) OBVIOUS
<1> QED BY <1>1, <1>2, <1>3

LEMMA RemainderIs ==
    ASSUME NEW n \in Nat, NEW b \in Nat \ {0}, NEW q \in Nat, NEW r \in 0 .. b - 1,
           n = b * q + r
    PROVE  n % b = r
OBVIOUS

LEMMA Regroup ==
    ASSUME NEW a \in Nat, NEW b \in Nat, NEW q \in Nat, NEW d \in Nat, NEW e \in Nat
    PROVE  a * (b * q + d) + e = (a * b) * q + (e + a * d)
OBVIOUS

LEMMA DigitBound ==
    ASSUME NEW a \in Nat \ {0}, NEW b \in Nat \ {0}, NEW d \in 0 .. b - 1, NEW e \in 0 .. a - 1
    PROVE  e + a * d \in 0 .. (a * b) - 1
<1>1. a * d \in Nat /\ a * b \in Nat OBVIOUS
<1>2. PICK k \in Nat : b = d + 1 + k
  <2>1. b - d - 1 \in Nat /\ b = d + 1 + (b - d - 1) OBVIOUS
  <2> QED BY <2>1
<1>3. a * b = a * d + a + a * k BY <1>2
<1>4. a * k \in Nat BY <1>2
<1> QED BY <1>1, <1>3, <1>4

\* Two digits: the remainder by a product.
LEMMA TwoDigits ==
    ASSUME NEW n \in Nat, NEW a \in Nat \ {0}, NEW b \in Nat \ {0}
    PROVE  n % (a * b) = (n % a) + a * ((n \div a) % b)
<1> DEFINE m == n \div a
           e == n % a
           q == m \div b
           d == m % b
<1>1. n = a * m + e /\ m \in Nat /\ e \in 0 .. a - 1 BY LastDigit
<1>2. m = b * q + d /\ q \in Nat /\ d \in 0 .. b - 1 BY <1>1, LastDigit
<1> HIDE DEF m, e, q, d
<1>3. n = (a * b) * q + (e + a * d) BY <1>1, <1>2, Regroup
<1>4. e + a * d \in 0 .. (a * b) - 1 BY <1>1, <1>2, DigitBound
<1>5. a * b \in Nat \ {0} OBVIOUS
<1>6. n % (a * b) = e + a * d BY <1>2, <1>3, <1>4, <1>5, RemainderIs
<1> QED BY <1>6 DEF e, d, m

\* The digits of a length, read as a number again.
LEMMA SizeRoundTrip ==
    ASSUME NEW n \in Nat, NEW digits,
           \A k \in 1 .. SizeBytes : digits[k] = SizeDigit(n, k - 1)
    PROVE  SizeOf(digits) = n % Wrap
<1> DEFINE R == Radix
           RR == R * R
           RRR == R * R * R
<1>1. R \in Nat \ {0} BY ChainAssumption
<1>2. RR \in Nat \ {0} /\ RRR \in Nat \ {0} BY <1>1
<1>3. /\ digits[1] = (n \div 1) % R /\ digits[2] = (n \div R) % R
      /\ digits[3] = (n \div RR) % R /\ digits[4] = (n \div RRR) % R
  BY DEF SizeBytes, SizeDigit, Place
<1> HIDE DEF RR, RRR
<1>4. /\ n \div 1 = n /\ n \div R \in Nat /\ n \div RR \in Nat /\ n \div RRR \in Nat
  BY <1>1, <1>2, LastDigit
<1>5. digits[1] \in Nat /\ digits[2] \in Nat /\ digits[3] \in Nat /\ digits[4] \in Nat
  <2>1. \A m \in Nat : m % R \in Nat BY <1>1, LastDigit
  <2> QED BY <1>3, <1>4, <2>1
<1>6. SizeOf(digits) = digits[1] + digits[2] * R + digits[3] * RR + digits[4] * RRR
  BY <1>1, <1>2, <1>5 DEF SizeOf, Place, RR, RRR
<1>7. n % RR = digits[1] + R * digits[2]
  <2>1. n % (R * R) = (n % R) + R * ((n \div R) % R) BY <1>1, TwoDigits
  <2> QED BY <1>3, <1>4, <2>1 DEF RR
<1>8. n % RRR = (n % RR) + RR * digits[3] BY <1>1, <1>2, <1>3, TwoDigits DEF RR, RRR
<1>9. n % Wrap = (n % RRR) + RRR * digits[4]
  <2>1. Wrap = RRR * R BY <1>1, <1>2 DEF Wrap, RRR
  <2>2. n % (RRR * R) = (n % RRR) + RRR * ((n \div RRR) % R) BY <1>1, <1>2, TwoDigits
  <2> QED BY <1>3, <2>1, <2>2
<1> QED BY <1>1, <1>2, <1>5, <1>6, <1>7, <1>8, <1>9

-----------------------------------------------------------------------------
(* Sequences, entry by entry *)

LEMMA TailEffect ==
    ASSUME NEW S, NEW s \in Seq(S), s # <<>>
    PROVE  /\ Len(s) \in Nat \ {0} /\ Head(s) = s[1] /\ s[1] \in S
           /\ Tail(s) \in Seq(S) /\ Len(Tail(s)) = Len(s) - 1
           /\ \A i \in 1 .. Len(s) - 1 : Tail(s)[i] = s[i + 1]
<1>1. Len(s) \in Nat \ {0} BY EmptySeq
<1>2. s[1] \in S BY <1>1, ElementOfSeq
<1>3. Head(s) = s[1] OBVIOUS
<1> QED BY <1>1, <1>2, <1>3, HeadTailProperties

LEMMA DropTwo ==
    ASSUME NEW S, NEW s \in Seq(S), Len(s) >= 2
    PROVE  /\ SubSeq(s, 3, Len(s)) \in Seq(S) /\ Len(SubSeq(s, 3, Len(s))) = Len(s) - 2
           /\ \A i \in 1 .. Len(s) - 2 : SubSeq(s, 3, Len(s))[i] = s[i + 2]
<1>1. Len(s) \in Nat BY LenProperties
<1>2. \A i \in 3 .. Len(s) : s[i] \in S BY <1>1, ElementOfSeq
<1>3. /\ SubSeq(s, 3, Len(s)) \in Seq(S)
      /\ Len(SubSeq(s, 3, Len(s))) = IF 3 <= Len(s) THEN Len(s) - 3 + 1 ELSE 0
      /\ \A i \in 1 .. Len(s) - 3 + 1 : SubSeq(s, 3, Len(s))[i] = s[3 + i - 1]
  BY <1>1, <1>2, SubSeqProperties
<1>4. Len(s) - 3 + 1 = Len(s) - 2 /\ (3 <= Len(s) \/ Len(s) - 2 = 0)
  <2>1. \A n \in Nat : n >= 2 => n - 3 + 1 = n - 2 /\ (3 <= n \/ n - 2 = 0) OBVIOUS
  <2> QED BY <1>1, <2>1
<1>5. \A i \in 1 .. Len(s) - 2 : 3 + i - 1 = i + 2 BY <1>1
<1> HIDE <1>2
<1>6. \A i \in 1 .. Len(s) - 2 : SubSeq(s, 3, Len(s))[i] = s[i + 2]
  <2> TAKE i \in 1 .. Len(s) - 2
  <2>1. i \in 1 .. Len(s) - 3 + 1 BY <1>4
  <2>2. SubSeq(s, 3, Len(s))[i] = s[3 + i - 1] BY <1>3, <2>1
  <2>3. 3 + i - 1 = i + 2 BY <1>5
  <2> QED BY <2>2, <2>3
<1>7. Len(SubSeq(s, 3, Len(s))) = Len(s) - 2 BY <1>3, <1>4
<1> QED BY <1>3, <1>6, <1>7

LEMMA FirstTwo ==
    ASSUME NEW S, NEW s \in Seq(S), Len(s) >= 2, NEW a, NEW b,
           SubSeq(s, 1, 2) = <<a, b>>
    PROVE  s[1] = a /\ s[2] = b
<1>1. Len(s) \in Nat BY LenProperties
<1>2. \A i \in 1 .. 2 : s[i] \in S BY <1>1, ElementOfSeq
<1>3. \A i \in 1 .. 2 - 1 + 1 : SubSeq(s, 1, 2)[i] = s[1 + i - 1] BY <1>2, SubSeqProperties
<1>4. SubSeq(s, 1, 2)[1] = s[1] /\ SubSeq(s, 1, 2)[2] = s[2] BY <1>3
<1>5. <<a, b>>[1] = a /\ <<a, b>>[2] = b OBVIOUS
<1> QED BY <1>4, <1>5, Zenon

\* What the board sends reaches an open port, in order.
LEMMA SendEffect ==
    ASSUME down \in Seq(BoardBytes), NEW bytes \in Seq(BoardBytes), Send(bytes)
    PROVE  /\ down' \in Seq(BoardBytes)
           /\ host = "closed" => down' = down
           /\ host # "closed" =>
                 /\ Len(down') = Len(down) + Len(bytes)
                 /\ \A i \in 1 .. Len(down) + Len(bytes) :
                        down'[i] = IF i <= Len(down) THEN down[i] ELSE bytes[i - Len(down)]
BY ConcatProperties DEF Send, HostOpen

LEMMA SendOne ==
    ASSUME down \in Seq(BoardBytes), NEW b \in BoardBytes, Send(<<b>>)
    PROVE  /\ host = "closed" => down' = down
           /\ host # "closed" =>
                 /\ Len(down') = Len(down) + 1
                 /\ \A i \in 1 .. Len(down) + 1 : down'[i] = IF i <= Len(down) THEN down[i] ELSE b
<1>1. <<b>> \in Seq(BoardBytes) /\ Len(<<b>>) = 1 /\ <<b>>[1] = b OBVIOUS
<1>2. Len(down) \in Nat BY LenProperties
<1>3. host # "closed" => /\ Len(down') = Len(down) + 1
                         /\ \A i \in 1 .. Len(down) + 1 :
                                down'[i] = IF i <= Len(down) THEN down[i] ELSE <<b>>[i - Len(down)]
  BY <1>1, SendEffect
<1>4. \A i \in 1 .. Len(down) + 1 : i <= Len(down) \/ i - Len(down) = 1 BY <1>2
<1>5. host = "closed" => down' = down BY <1>1, SendEffect
<1> QED BY <1>1, <1>3, <1>4, <1>5

LEMMA SendTwo ==
    ASSUME down \in Seq(BoardBytes), NEW b \in BoardBytes, NEW c \in BoardBytes, Send(<<b, c>>)
    PROVE  /\ host = "closed" => down' = down
           /\ host # "closed" =>
                 /\ Len(down') = Len(down) + 2
                 /\ \A i \in 1 .. Len(down) : down'[i] = down[i]
                 /\ down'[Len(down) + 1] = b /\ down'[Len(down) + 2] = c
<1>1. <<b, c>> \in Seq(BoardBytes) /\ Len(<<b, c>>) = 2 /\ <<b, c>>[1] = b /\ <<b, c>>[2] = c OBVIOUS
<1>2. Len(down) \in Nat BY LenProperties
<1>3. host # "closed" => /\ Len(down') = Len(down) + 2
                         /\ \A i \in 1 .. Len(down) + 2 :
                                down'[i] = IF i <= Len(down) THEN down[i] ELSE <<b, c>>[i - Len(down)]
  BY <1>1, SendEffect
<1>4. \A n \in Nat : /\ \A i \in 1 .. n : i \in 1 .. n + 2 /\ i <= n
                     /\ n + 1 \in 1 .. n + 2 /\ ~ (n + 1 <= n) /\ (n + 1) - n = 1
                     /\ n + 2 \in 1 .. n + 2 /\ ~ (n + 2 <= n) /\ (n + 2) - n = 2
  OBVIOUS
<1>5. host = "closed" => down' = down BY <1>1, SendEffect
<1> QED BY <1>1, <1>2, <1>3, <1>4, <1>5

-----------------------------------------------------------------------------
(* Types *)

Bytes == {SizeByte(d) : d \in Digits} \cup {ImageByte(f, i) : f \in Files, i \in Nat}

Asking == {"ask1", "ask2", "ask3"}

BoardOK ==
    /\ board \in Asking => Len(got) = 0
    /\ board = "size" => Len(got) < SizeBytes
    /\ board = "answer" => Len(got) = SizeBytes
    /\ board = "image" => left > 0

HostOK ==
    /\ sent \in Nat
    /\ host \in {"wait", "two", "answer"} => sent = 0
    /\ host = "size" => sent < SizeBytes
    /\ host = "upload" => sent <= FileLen[file]
    /\ host = "monitor" => sent = FileLen[file]

ChainType ==
    /\ ChainTypeOK
    /\ got \in Seq(Digits) /\ kernel \in Seq(Bytes) /\ up \in Seq(Bytes)
    /\ down \in Seq(BoardBytes)
    /\ BoardOK /\ HostOK

LEMMA ByteValues ==
    /\ \A d \in Digits : Values(SizeByte(d)) = {d}
    /\ \A f \in Files, i \in Nat : Values(ImageByte(f, i)) = Digits
    /\ \A b \in Bytes : Values(b) \subseteq Digits
<1>1. \A d \in Digits : Values(SizeByte(d)) = {d} BY DEF Values, SizeByte
<1>2. \A f \in Files, i \in Nat : Values(ImageByte(f, i)) = Digits BY DEF Values, ImageByte
<1> QED BY <1>1, <1>2 DEF Bytes

LEMMA DigitIsDigit ==
    ASSUME NEW n \in Nat, NEW k \in 0 .. SizeBytes - 1
    PROVE  SizeDigit(n, k) \in Digits
<1>1. Radix \in Nat \ {0} BY ChainAssumption
<1>2. k + 1 \in 1 .. 4 /\ Place[k + 1] \in Nat \ {0}
  <2>1. k = 0 \/ k = 1 \/ k = 2 \/ k = 3 BY DEF SizeBytes
  <2>2. Radix * Radix \in Nat \ {0} /\ Radix * Radix * Radix \in Nat \ {0} BY <1>1
  <2> QED BY <1>1, <2>1, <2>2 DEF Place
<1>3. n \div Place[k + 1] \in Nat BY <1>2, LastDigit
<1> QED BY <1>1, <1>3, LastDigit DEF SizeDigit, Digits

\* Four digits make a number below Wrap.
LEMMA SizeIsNat ==
    ASSUME NEW digits \in Seq(Digits), Len(digits) = SizeBytes
    PROVE  SizeOf(digits) \in Nat
<1>1. Radix \in Nat \ {0} BY ChainAssumption
<1>2. digits[1] \in Nat /\ digits[2] \in Nat /\ digits[3] \in Nat /\ digits[4] \in Nat
  <2>1. \A k \in 1 .. Len(digits) : digits[k] \in Digits BY ElementOfSeq
  <2>2. \A k \in 1 .. 4 : digits[k] \in Digits BY <2>1 DEF SizeBytes
  <2>3. Digits \subseteq Nat BY <1>1 DEF Digits
  <2>4. 1 \in 1 .. 4 /\ 2 \in 1 .. 4 /\ 3 \in 1 .. 4 /\ 4 \in 1 .. 4 OBVIOUS
  <2> QED BY <2>2, <2>3, <2>4
<1>3. \A a \in Nat, b \in Nat : a * b \in Nat /\ a + b \in Nat OBVIOUS
<1>4. Radix * Radix \in Nat /\ Radix * Radix * Radix \in Nat BY <1>1, <1>3
<1>5. Place[1] \in Nat /\ Place[2] \in Nat /\ Place[3] \in Nat /\ Place[4] \in Nat
  BY <1>1, <1>4 DEF Place
<1> QED BY <1>2, <1>3, <1>5 DEF SizeOf

LEMMA InitChainType == Init => ChainType
<1> SUFFICES ASSUME Init PROVE ChainType
  OBVIOUS
<1>1. Wrap \in Nat \ {0} BY ChainAssumption DEF Wrap
<1> QED BY <1>1, EmptySeq, ChainAssumption
     DEF Init, ChainType, ChainTypeOK, BoardOK, HostOK, Asking, SizeBytes

LEMMA EntriesIn == \A S : \A s \in Seq(S) : \A k \in DOMAIN s : s[k] \in S
OBVIOUS

LEMMA AppendEffect ==
    ASSUME NEW S, NEW s \in Seq(S), NEW e \in S
    PROVE  /\ Append(s, e) \in Seq(S) /\ Len(Append(s, e)) = Len(s) + 1
           /\ \A i \in 1 .. Len(s) : Append(s, e)[i] = s[i]
           /\ Append(s, e)[Len(s) + 1] = e
BY AppendProperties

LEMMA NextChainType == ChainType /\ [Next]_vars => ChainType'
<1> SUFFICES ASSUME ChainType, [Next]_vars PROVE ChainType'
  OBVIOUS
<1>a. /\ FileLen[file] \in Nat /\ LineCap \in Nat \ {0} /\ MaxFaults \in Nat
      /\ Wrap \in Nat \ {0} /\ \A f \in Files : FileLen[f] \in Nat
  BY ChainAssumption DEF ChainType, ChainTypeOK, Wrap
<1>b. /\ Len(got) \in Nat /\ Len(up) \in Nat /\ Len(down) \in Nat
  BY LenProperties DEF ChainType
<1>c. <<"3">> \in Seq(BoardBytes) /\ <<"S", "E">> \in Seq(BoardBytes) /\ <<"O", "K">> \in Seq(BoardBytes)
      /\ <<"text">> \in Seq(BoardBytes)
  BY DEF BoardBytes
<1> USE <1>a, <1>b
<1>PowerOn. CASE PowerOn
  <2>1. \A S : <<>> \in Seq(S) /\ Len(<<>>) = 0 OBVIOUS
  <2> QED BY <1>PowerOn, EntriesIn, <2>1
       DEF PowerOn, ChainType, ChainTypeOK, BoardOK, HostOK, Asking, SizeBytes, boardVars, hostVars, HostOpen, Close
<1>Ask. CASE Ask
  <2>1. down' \in Seq(BoardBytes) BY <1>c, <1>Ask, SendEffect DEF Ask, ChainType
  <2> QED BY <1>Ask, EntriesIn, <2>1
       DEF Ask, ChainType, ChainTypeOK, BoardOK, HostOK, Asking, SizeBytes, boardVars, hostVars, HostOpen, Close
<1>ReadSize. CASE ReadSize
  <2>1. /\ up' \in Seq(Bytes) /\ Len(up') <= LineCap /\ Head(up) \in Bytes
    BY <1>ReadSize, TailEffect DEF ReadSize, ChainType, ChainTypeOK
  <2>2. PICK d \in Digits : got' = Append(got, d) BY <1>ReadSize, <2>1, ByteValues DEF ReadSize
  <2>3. got' \in Seq(Digits) /\ Len(got') = Len(got) + 1 BY <2>2, AppendEffect DEF ChainType
  <2> QED BY <1>ReadSize, EntriesIn, <2>1, <2>3
       DEF ReadSize, ChainType, ChainTypeOK, BoardOK, HostOK, Asking, SizeBytes, boardVars, hostVars, HostOpen, Close
<1>Refuse. CASE Refuse
  <2>1. down' \in Seq(BoardBytes) BY <1>c, <1>Refuse, SendEffect DEF Refuse, ChainType
  <2>2. got' \in Seq(Digits) /\ Len(got') = 0 BY <1>Refuse DEF Refuse
  <2> QED BY <1>Refuse, EntriesIn, <2>1, <2>2
       DEF Refuse, ChainType, ChainTypeOK, BoardOK, HostOK, Asking, SizeBytes, boardVars, hostVars, HostOpen, Close
<1>Accept. CASE Accept
  <2>1. down' \in Seq(BoardBytes) BY <1>c, <1>Accept, SendEffect DEF Accept, ChainType
  <2>2. left' \in 0 .. Wrap - 1 /\ left' > 0
    <3>1. SizeOf(got) \in Nat BY <1>Accept, SizeIsNat DEF Accept, ChainType, BoardOK
    <3>2. Wrap \div 4 <= Wrap OBVIOUS
    <3>3. MinSize \in Nat /\ MinSize >= 1 /\ Wrap \div 4 \in Nat BY ChainAssumption
    <3> QED BY <1>Accept, <3>1, <3>2, <3>3 DEF Accept, Accepted
  <2> QED BY <1>Accept, EntriesIn, <2>1, <2>2
       DEF Accept, ChainType, ChainTypeOK, BoardOK, HostOK, Asking, SizeBytes, boardVars, hostVars, HostOpen, Close
<1>ReadImage. CASE ReadImage
  <2>1. /\ up' \in Seq(Bytes) /\ Len(up') <= LineCap /\ Head(up) \in Bytes
    BY <1>ReadImage, TailEffect DEF ReadImage, ChainType, ChainTypeOK
  <2>2. kernel' \in Seq(Bytes) BY <1>ReadImage, <2>1, AppendEffect DEF ReadImage, ChainType
  <2> QED BY <1>ReadImage, EntriesIn, <2>1, <2>2
       DEF ReadImage, ChainType, ChainTypeOK, BoardOK, HostOK, Asking, SizeBytes, boardVars, hostVars, HostOpen, Close
<1>StartKernel. CASE StartKernel
  <2> QED BY <1>StartKernel, EntriesIn
       DEF StartKernel, ChainType, ChainTypeOK, BoardOK, HostOK, Asking, SizeBytes, boardVars, hostVars, HostOpen, Close
<1>KernelPrints. CASE KernelPrints
  <2>1. down' \in Seq(BoardBytes) BY <1>c, <1>KernelPrints, SendEffect DEF KernelPrints, ChainType
  <2> QED BY <1>KernelPrints, EntriesIn, <2>1
       DEF KernelPrints, ChainType, ChainTypeOK, BoardOK, HostOK, Asking, SizeBytes, boardVars, hostVars, HostOpen, Close
<1>KernelReads. CASE KernelReads
  <2>1. /\ up' \in Seq(Bytes) /\ Len(up') <= LineCap
    BY <1>KernelReads, TailEffect DEF KernelReads, ChainType, ChainTypeOK
  <2> QED BY <1>KernelReads, EntriesIn, <2>1
       DEF KernelReads, ChainType, ChainTypeOK, BoardOK, HostOK, Asking, SizeBytes, boardVars, hostVars, HostOpen, Close
<1>Wait. CASE Wait
  <2>1. down' \in Seq(BoardBytes) BY <1>Wait, TailEffect DEF Wait, ChainType
  <2> QED BY <1>Wait, EntriesIn, <2>1
       DEF Wait, ChainType, ChainTypeOK, BoardOK, HostOK, Asking, SizeBytes, boardVars, hostVars, HostOpen, Close
<1>ReadTwo. CASE ReadTwo
  <2>1. down' \in Seq(BoardBytes)
    <3>1. down \in Seq(BoardBytes) /\ Len(down) >= 2 BY <1>ReadTwo DEF ReadTwo, ChainType
    <3>2. SubSeq(down, 3, Len(down)) \in Seq(BoardBytes) BY <3>1, DropTwo
    <3>3. <<>> \in Seq(BoardBytes) OBVIOUS
    <3> QED BY <1>ReadTwo, <3>2, <3>3 DEF ReadTwo, Close
  <2> QED BY <1>ReadTwo, EntriesIn, <2>1
       DEF ReadTwo, ChainType, ChainTypeOK, BoardOK, HostOK, Asking, SizeBytes, boardVars, hostVars, HostOpen, Close
<1>SendSize. CASE SendSize
  <2>1. SizeByte(SizeDigit(FileLen[file], sent)) \in Bytes
    BY <1>SendSize, DigitIsDigit DEF SendSize, Bytes, ChainType, HostOK, SizeBytes
  <2>2. up' \in Seq(Bytes) /\ Len(up') = Len(up) + 1
    BY <1>SendSize, <2>1, AppendEffect DEF SendSize, ChainType
  <2> QED BY <1>SendSize, EntriesIn, <2>2
       DEF SendSize, ChainType, ChainTypeOK, BoardOK, HostOK, Asking, SizeBytes, boardVars, hostVars, HostOpen, Close
<1>ReadAnswer. CASE ReadAnswer
  <2>1. down' \in Seq(BoardBytes)
    <3>1. down \in Seq(BoardBytes) /\ Len(down) >= 2 BY <1>ReadAnswer DEF ReadAnswer, ChainType
    <3>2. SubSeq(down, 3, Len(down)) \in Seq(BoardBytes) BY <3>1, DropTwo
    <3>3. <<>> \in Seq(BoardBytes) OBVIOUS
    <3> QED BY <1>ReadAnswer, <3>2, <3>3 DEF ReadAnswer, Close
  <2> QED BY <1>ReadAnswer, EntriesIn, <2>1
       DEF ReadAnswer, ChainType, ChainTypeOK, BoardOK, HostOK, Asking, SizeBytes, boardVars, hostVars, HostOpen, Close
<1>Upload. CASE Upload
  <2>1. ImageByte(file, sent + 1) \in Bytes BY DEF Bytes, ChainType, ChainTypeOK, HostOK
  <2>2. up' \in Seq(Bytes) /\ Len(up') = Len(up) + 1
    BY <1>Upload, <2>1, AppendEffect DEF Upload, ChainType
  <2> QED BY <1>Upload, EntriesIn, <2>2
       DEF Upload, ChainType, ChainTypeOK, BoardOK, HostOK, Asking, SizeBytes, boardVars, hostVars, HostOpen, Close
<1>UploadDone. CASE UploadDone
  <2> QED BY <1>UploadDone, EntriesIn
       DEF UploadDone, ChainType, ChainTypeOK, BoardOK, HostOK, Asking, SizeBytes, boardVars, hostVars, HostOpen, Close
<1>Monitor. CASE Monitor
  <2>1. down' \in Seq(BoardBytes) BY <1>Monitor, TailEffect DEF Monitor, ChainType
  <2> QED BY <1>Monitor, EntriesIn, <2>1
       DEF Monitor, ChainType, ChainTypeOK, BoardOK, HostOK, Asking, SizeBytes, boardVars, hostVars, HostOpen, Close
<1>Open. CASE Open
  <2> QED BY <1>Open, EntriesIn
       DEF Open, ChainType, ChainTypeOK, BoardOK, HostOK, Asking, SizeBytes, boardVars, hostVars, HostOpen, Close
<1>Reset. CASE Reset
  <2> QED BY <1>Reset, EntriesIn
       DEF Reset, ChainType, ChainTypeOK, BoardOK, HostOK, Asking, SizeBytes, boardVars, hostVars, HostOpen, Close
<1>KillSender. CASE KillSender
  <2>1. down' \in Seq(BoardBytes) BY <1>KillSender DEF KillSender, Close
  <2> QED BY <1>KillSender, EntriesIn, <2>1
       DEF KillSender, ChainType, ChainTypeOK, BoardOK, HostOK, Asking, SizeBytes, boardVars, hostVars, HostOpen, Close
<1>LoseByte. CASE LoseByte
  <2>1. /\ up' \in Seq(Bytes) /\ Len(up') <= LineCap
    BY <1>LoseByte, TailEffect DEF LoseByte, ChainType, ChainTypeOK
  <2> QED BY <1>LoseByte, EntriesIn, <2>1
       DEF LoseByte, ChainType, ChainTypeOK, BoardOK, HostOK, Asking, SizeBytes, boardVars, hostVars, HostOpen, Close
<1>Stutter. CASE UNCHANGED vars
  BY <1>Stutter DEF vars, boardVars, hostVars, ChainType, ChainTypeOK, BoardOK, HostOK
<1> QED
  BY <1>PowerOn, <1>Ask, <1>ReadSize, <1>Refuse, <1>Accept, <1>ReadImage, <1>StartKernel,
     <1>KernelPrints, <1>KernelReads, <1>Wait, <1>ReadTwo, <1>SendSize, <1>ReadAnswer,
     <1>Upload, <1>UploadDone, <1>Monitor, <1>Open, <1>Reset, <1>KillSender, <1>LoseByte,
     <1>Stutter DEF Next, Receiver, Sender

LEMMA ChainTypeAlways == Spec => []ChainType
BY InitChainType, NextChainType, PTL DEF Spec

\* Whatever the user does, every reader of the line stays within the four bytes of a
\* size and the length it was told, and the line within its capacity.
THEOREM ChainTypeCorrect == Spec => []ChainTypeOK
<1>1. ChainType => ChainTypeOK BY DEF ChainType
<1> QED BY <1>1, ChainTypeAlways, PTL

-----------------------------------------------------------------------------
(* The inductive invariant: what is on the line, and whose bytes they are *)

\* How many of the three bytes 3 the receiver has sent since it started over.
Asked ==
    CASE board = "ask2" -> 1 [] board = "ask3" -> 2 [] board = "size" -> 3 [] OTHER -> 0

\* From byte i on there is nothing on its way to the host but the threes it was sent,
\* and the host cannot have got to the size yet.
ThreesFrom(i) ==
    /\ \A j \in i .. Len(down) : down[j] = "3"
    /\ Len(down) - i < Asked
    /\ Len(got) = 0 /\ Len(up) = 0

\* The answer of the receiver is still on its way, with nothing before it.
AnswerFirst(a, b) == Len(down) >= 2 /\ down[1] = a /\ down[2] = b

\* Where the receiver is, seen from the sender.
Line ==
    /\ host = "closed" => Len(down) = 0
    /\ host = "wait" => \A i \in 1 .. Len(down) : down[i] = "3" => ThreesFrom(i)
    /\ host = "two" => ThreesFrom(1) /\ Len(down) < Asked
    /\ host = "size" => board = "size" /\ Len(down) = 0
    /\ host = "answer" =>
          \/ board \in {"size", "answer"} /\ Len(down) = 0 /\ Len(got) + Len(up) = SizeBytes
          \/ board \in Asking \cup {"size"} /\ AnswerFirst("S", "E") /\ Len(got) = 0 /\ Len(up) = 0
          \/ board = "image" /\ AnswerFirst("O", "K") /\ Len(up) = 0 /\ Len(kernel) = 0
    /\ host = "upload" => board \in {"image", "loaded", "running"}

\* A receiver that asks has nothing and gets nothing.
AskInv == board \in Asking => Len(got) = 0 /\ Len(up) = 0 /\ Len(kernel) = 0

\* The size is the size of f: what has been read of it and what is on the line.
SizeInv(f) ==
    board \in {"size", "answer"} =>
        /\ Len(kernel) = 0
        /\ Len(got) + Len(up) <= SizeBytes
        /\ \A i \in 1 .. Len(got) : got[i] = SizeDigit(FileLen[f], i - 1)
        /\ \A j \in 1 .. Len(up) : up[j] = SizeByte(SizeDigit(FileLen[f], Len(got) + j - 1))
        /\ host = "size" => f = file /\ Len(got) + Len(up) = sent
        /\ host = "answer" /\ Len(down) = 0 => f = file
        /\ host = "monitor" => Len(got) = 0 /\ Len(up) = 0

\* The image is that of f: what has been read of it and what is on the line.
Stored(f) == \A i \in 1 .. Len(kernel) : kernel[i] = ImageByte(f, i)

ImageInv(f) ==
    board = "image" =>
        /\ left + Len(kernel) = FileLen[f] % Wrap
        /\ Stored(f)
        /\ \A j \in 1 .. Len(up) : up[j] = ImageByte(f, Len(kernel) + j)
        /\ host = "answer" => f = file
        /\ host \in {"upload", "monitor"} => f = file /\ sent = Len(kernel) + Len(up)

LoadedInv(f) ==
    board \in {"loaded", "running"} =>
        /\ Len(kernel) = FileLen[f] % Wrap /\ Len(kernel) >= 1
        /\ Stored(f)
        /\ board = "running" => entry = IF f \in Elf THEN "header" ELSE "load"

From(f) == SizeInv(f) /\ ImageInv(f) /\ LoadedInv(f)

LineInv == quiet /\ board # "off" => Line /\ AskInv /\ \E f \in Files : From(f)

LEMMA InitLineInv == Init => LineInv
BY DEF Init, LineInv

\* Every step of a board that is on and was started on a quiet line.
Awake ==
    /\ ChainType /\ ChainType'
    /\ quiet /\ board # "off" /\ Line /\ AskInv

LEMMA Lengths ==
    ASSUME ChainType
    PROVE  /\ Len(got) \in Nat /\ Len(up) \in Nat /\ Len(down) \in Nat /\ Len(kernel) \in Nat
           /\ file \in Files /\ \A f \in Files : FileLen[f] \in Nat
           /\ left \in Nat /\ sent \in Nat
BY LenProperties, ChainAssumption DEF ChainType, ChainTypeOK, HostOK

LEMMA AskKeeps ==
    ASSUME Awake, Ask, NEW f \in Files, From(f)
    PROVE  Line' /\ AskInv' /\ From(f)'
<1>1. ChainType /\ ChainType' /\ Line /\ AskInv BY DEF Awake
<1> USE Lengths, <1>1
<1>2. /\ host = "closed" => down' = down
      /\ host # "closed" =>
            /\ Len(down') = Len(down) + 1
            /\ \A i \in 1 .. Len(down) + 1 : down'[i] = IF i <= Len(down) THEN down[i] ELSE "3"
  BY SendOne DEF Ask, ChainType, BoardBytes
<1>3. /\ board \in Asking /\ got' = got /\ up' = up /\ kernel' = kernel /\ host' = host /\ file' = file
      /\ sent' = sent /\ Len(got) = 0 /\ Len(up) = 0 /\ Len(kernel) = 0
      /\ board' \in {"ask2", "ask3", "size"} /\ Asked' = Asked + 1 /\ Asked \in 0 .. 2
  BY DEF Ask, Asking, AskInv, hostVars, Asked
<1>4. host \in {"closed", "wait", "two", "answer", "monitor"}
  BY <1>3 DEF Line, Asking, ChainType, ChainTypeOK
<1>5. host = "wait" => \A i \in 1 .. Len(down') : down'[i] = "3" => ThreesFrom(i)'
  <2> SUFFICES ASSUME host = "wait", NEW i \in 1 .. Len(down'), down'[i] = "3" PROVE ThreesFrom(i)'
    OBVIOUS
  <2>1. CASE i <= Len(down)
    <3>1. ThreesFrom(i) BY <1>2, <2>1 DEF Line
    <3> QED BY <1>2, <1>3, <3>1 DEF ThreesFrom
  <2>2. CASE i = Len(down) + 1 BY <1>2, <1>3, <2>2 DEF ThreesFrom
  <2> QED BY <1>2, <2>1, <2>2
<1>6. host = "two" => ThreesFrom(1)' /\ Len(down') < Asked'
  BY <1>2, <1>3 DEF Line, ThreesFrom
<1>7. host = "answer" => board' \in Asking \cup {"size"} /\ AnswerFirst("S", "E")'
  <2> SUFFICES ASSUME host = "answer" PROVE board' \in Asking \cup {"size"} /\ AnswerFirst("S", "E")'
    OBVIOUS
  <2>1. AnswerFirst("S", "E") BY <1>3 DEF Line, Asking
  <2> QED BY <1>2, <1>3, <2>1 DEF AnswerFirst, Asking
<1>8. Line' BY <1>2, <1>3, <1>4, <1>5, <1>6, <1>7 DEF Line
<1>9. AskInv' BY <1>3 DEF AskInv
<1>10. From(f)' BY <1>2, <1>3, <1>4, <1>7 DEF From, SizeInv, ImageInv, LoadedInv, SizeBytes, AnswerFirst
<1> QED BY <1>8, <1>9, <1>10

LEMMA ReadSizeKeeps ==
    ASSUME Awake, ReadSize, NEW f \in Files, From(f)
    PROVE  Line' /\ AskInv' /\ From(f)'
<1>1. ChainType /\ ChainType' /\ Line /\ AskInv BY DEF Awake
<1> USE Lengths, <1>1
<1>2. /\ Len(up) \in Nat \ {0} /\ Len(up') = Len(up) - 1 /\ Head(up) = up[1]
      /\ \A i \in 1 .. Len(up) - 1 : up'[i] = up[i + 1]
  BY TailEffect DEF ReadSize, ChainType
<1>3. /\ board = "size" /\ board' \in {"size", "answer"} /\ kernel' = kernel /\ down' = down
      /\ host' = host /\ file' = file /\ sent' = sent
  BY DEF ReadSize, hostVars
<1>4. up[1] = SizeByte(SizeDigit(FileLen[f], Len(got))) /\ Len(got) < SizeBytes
  <2>1. 1 \in 1 .. Len(up) /\ Len(got) + 1 - 1 = Len(got) BY <1>2
  <2>2. up[1] = SizeByte(SizeDigit(FileLen[f], Len(got) + 1 - 1)) BY <1>3, <2>1 DEF From, SizeInv
  <2>3. Len(got) < SizeBytes BY <1>3 DEF ChainType, BoardOK
  <2> QED BY <2>1, <2>2, <2>3
<1>5. got' = Append(got, SizeDigit(FileLen[f], Len(got))) /\ SizeDigit(FileLen[f], Len(got)) \in Digits
  <2>1. SizeDigit(FileLen[f], Len(got)) \in Digits BY <1>4, DigitIsDigit DEF SizeBytes
  <2>2. Values(Head(up)) = {SizeDigit(FileLen[f], Len(got))} BY <1>2, <1>4, <2>1, ByteValues
  <2> QED BY <2>1, <2>2 DEF ReadSize
<1>6. /\ Len(got') = Len(got) + 1 /\ \A i \in 1 .. Len(got) : got'[i] = got[i]
      /\ got'[Len(got) + 1] = SizeDigit(FileLen[f], Len(got))
  BY <1>5, AppendEffect DEF ChainType
<1>7. host # "monitor" /\ host # "upload" BY <1>2, <1>3 DEF From, SizeInv, Line
<1>8. Line'
  <2>1. host # "two" /\ (host = "wait" => \A i \in 1 .. Len(down) : down[i] # "3")
    BY <1>2 DEF Line, ThreesFrom
  <2>2. host # "size"  \/  board' = "size"
    <3>1. host = "size" => Len(got) + Len(up) = sent /\ sent < SizeBytes
      BY <1>3 DEF From, SizeInv, ChainType, HostOK
    <3>2. host = "size" => Len(got) + 1 # SizeBytes BY <1>2, <3>1 DEF SizeBytes
    <3> QED BY <3>2 DEF ReadSize
  <2>3. host = "answer" => Len(down) = 0 /\ Len(got) + Len(up) = SizeBytes BY <1>2, <1>3 DEF Line
  <2> HIDE DEF Line
  <2>4. host = "answer" => Len(got') + Len(up') = SizeBytes BY <1>2, <1>6, <2>3
  <2>5. host = "closed" => Len(down) = 0 BY DEF Line
  <2>6. host = "size" => Len(down) = 0 BY DEF Line
  <2> QED BY <1>3, <1>7, <2>1, <2>2, <2>3, <2>4, <2>5, <2>6 DEF Line
<1>9. AskInv' BY <1>3 DEF AskInv, Asking
<1>10. From(f)'
  <2>1. \A i \in 1 .. Len(got') : got'[i] = SizeDigit(FileLen[f], i - 1)
    <3> TAKE i \in 1 .. Len(got')
    <3>1. CASE i \in 1 .. Len(got) BY <1>3, <1>6, <3>1 DEF From, SizeInv
    <3>2. CASE i = Len(got) + 1
      <4>1. i - 1 = Len(got) BY <3>2
      <4> QED BY <1>6, <3>2, <4>1
    <3> QED BY <1>6, <3>1, <3>2
  <2>2. \A j \in 1 .. Len(up') : up'[j] = SizeByte(SizeDigit(FileLen[f], Len(got') + j - 1))
    <3> TAKE j \in 1 .. Len(up')
    <3>1. j + 1 \in 1 .. Len(up) /\ up'[j] = up[j + 1] /\ Len(got) + (j + 1) - 1 = Len(got') + j - 1
      BY <1>2, <1>6
    <3>2. up[j + 1] = SizeByte(SizeDigit(FileLen[f], Len(got) + (j + 1) - 1))
      BY <1>3, <3>1 DEF From, SizeInv
    <3> QED BY <3>1, <3>2
  <2>3. SizeInv(f)' BY <1>2, <1>3, <1>6, <1>7, <2>1, <2>2 DEF From, SizeInv
  <2> QED BY <1>3, <2>3 DEF From, ImageInv, LoadedInv
<1> QED BY <1>8, <1>9, <1>10

\* With the size read, the host is one that has sent it, or one that came later.
LEMMA WholeSize ==
    ASSUME ChainType, Line, board = "answer", NEW f \in Files, From(f)
    PROVE  /\ Len(got) = SizeBytes /\ Len(up) = 0 /\ Len(kernel) = 0
           /\ host \in {"closed", "wait", "answer"}
           /\ host # "wait" => Len(down) = 0
           /\ host = "wait" => \A i \in 1 .. Len(down) : down[i] # "3"
           /\ host = "answer" => f = file
<1> USE Lengths
<1>1. Len(got) = 4 /\ Len(up) = 0 /\ Len(kernel) = 0
  <2>1. Len(got) = 4 BY DEF ChainType, BoardOK, SizeBytes
  <2>2. Len(got) + Len(up) <= 4 /\ Len(kernel) = 0 BY DEF From, SizeInv, SizeBytes
  <2> QED BY <2>1, <2>2
<1>2. host # "size"
  <2>1. host = "size" => sent < 4 BY DEF ChainType, HostOK, SizeBytes
  <2>2. host = "size" => sent = 4 BY <1>1 DEF From, SizeInv
  <2> QED BY <2>1, <2>2
<1>3. host # "two" /\ (host = "wait" => \A i \in 1 .. Len(down) : down[i] # "3")
  BY <1>1 DEF Line, ThreesFrom
<1>4. host # "monitor" /\ host # "upload" BY <1>1 DEF From, SizeInv, Line
<1>5. host \in {"closed", "wait", "answer"} BY <1>2, <1>3, <1>4 DEF ChainType, ChainTypeOK
<1>6. host # "wait" => Len(down) = 0 BY <1>5 DEF Line, Asking
<1>7. host = "answer" => f = file BY <1>6 DEF From, SizeInv
<1> QED BY <1>1, <1>3, <1>5, <1>6, <1>7 DEF SizeBytes

LEMMA RefuseKeeps ==
    ASSUME Awake, Refuse, NEW f \in Files, From(f)
    PROVE  Line' /\ AskInv' /\ From(f)'
<1>1. ChainType /\ ChainType' /\ Line /\ AskInv BY DEF Awake
<1> USE Lengths, <1>1
<1>2. /\ Len(got) = SizeBytes /\ Len(up) = 0 /\ Len(kernel) = 0
      /\ host \in {"closed", "wait", "answer"}
      /\ host # "wait" => Len(down) = 0
      /\ host = "wait" => \A i \in 1 .. Len(down) : down[i] # "3"
      /\ host = "answer" => f = file
  BY WholeSize DEF Refuse
<1>3. /\ board' = "ask1" /\ up' = up /\ kernel' = kernel /\ host' = host /\ file' = file /\ sent' = sent
  BY DEF Refuse, hostVars
<1>4. /\ host = "closed" => down' = down
      /\ host # "closed" => /\ Len(down') = Len(down) + 2
                            /\ \A i \in 1 .. Len(down) : down'[i] = down[i]
                            /\ down'[Len(down) + 1] = "S" /\ down'[Len(down) + 2] = "E"
  BY SendTwo DEF Refuse, ChainType, BoardBytes
<1>5. host = "wait" => \A i \in 1 .. Len(down') : down'[i] # "3"
  <2> SUFFICES ASSUME host = "wait", NEW i \in 1 .. Len(down') PROVE down'[i] # "3"
    OBVIOUS
  <2>1. i \in 1 .. Len(down) \/ i = Len(down) + 1 \/ i = Len(down) + 2 BY <1>4
  <2> QED BY <1>2, <1>4, <2>1
<1>6. Len(got') = 0 BY DEF Refuse
<1>7. host = "answer" => AnswerFirst("S", "E")' BY <1>2, <1>4 DEF AnswerFirst
<1>8. Line' BY <1>2, <1>3, <1>4, <1>5, <1>6, <1>7 DEF Line, Asking
<1>9. AskInv' BY <1>2, <1>3, <1>6 DEF AskInv
<1>10. From(f)' BY <1>3 DEF From, SizeInv, ImageInv, LoadedInv
<1> QED BY <1>8, <1>9, <1>10

LEMMA AcceptKeeps ==
    ASSUME Awake, Accept, NEW f \in Files, From(f)
    PROVE  Line' /\ AskInv' /\ From(f)'
<1>1. ChainType /\ ChainType' /\ Line /\ AskInv BY DEF Awake
<1> USE Lengths, <1>1
<1>2. /\ Len(got) = SizeBytes /\ Len(up) = 0 /\ Len(kernel) = 0
      /\ host \in {"closed", "wait", "answer"}
      /\ host # "wait" => Len(down) = 0
      /\ host = "wait" => \A i \in 1 .. Len(down) : down[i] # "3"
      /\ host = "answer" => f = file
  BY WholeSize DEF Accept
<1>3. /\ board' = "image" /\ up' = up /\ kernel' = kernel /\ host' = host /\ file' = file /\ sent' = sent
  BY DEF Accept, hostVars
<1>4. /\ host = "closed" => down' = down
      /\ host # "closed" => /\ Len(down') = Len(down) + 2
                            /\ \A i \in 1 .. Len(down) : down'[i] = down[i]
                            /\ down'[Len(down) + 1] = "O" /\ down'[Len(down) + 2] = "K"
  BY SendTwo DEF Accept, ChainType, BoardBytes
<1>5. host = "wait" => \A i \in 1 .. Len(down') : down'[i] # "3"
  <2> SUFFICES ASSUME host = "wait", NEW i \in 1 .. Len(down') PROVE down'[i] # "3"
    OBVIOUS
  <2>1. i \in 1 .. Len(down) \/ i = Len(down) + 1 \/ i = Len(down) + 2 BY <1>4
  <2> QED BY <1>2, <1>4, <2>1
<1>6. left' = FileLen[f] % Wrap
  <2>1. \A k \in 1 .. SizeBytes : got[k] = SizeDigit(FileLen[f], k - 1)
    BY <1>2 DEF Accept, From, SizeInv
  <2> QED BY <2>1, SizeRoundTrip DEF Accept
<1>7. host = "answer" => AnswerFirst("O", "K")' BY <1>2, <1>4 DEF AnswerFirst
<1>8. Line' BY <1>2, <1>3, <1>4, <1>5, <1>7 DEF Line
<1>9. AskInv' BY <1>3 DEF AskInv, Asking
<1>10. From(f)' BY <1>2, <1>3, <1>6 DEF From, SizeInv, ImageInv, LoadedInv, Stored
<1> QED BY <1>8, <1>9, <1>10

LEMMA ReadImageKeeps ==
    ASSUME Awake, ReadImage, NEW f \in Files, From(f)
    PROVE  Line' /\ AskInv' /\ From(f)'
<1>1. ChainType /\ ChainType' /\ Line /\ AskInv BY DEF Awake
<1> USE Lengths, <1>1
<1>2. /\ Len(up) \in Nat \ {0} /\ Len(up') = Len(up) - 1 /\ Head(up) = up[1] /\ up[1] \in Bytes
      /\ \A i \in 1 .. Len(up) - 1 : up'[i] = up[i + 1]
  BY TailEffect DEF ReadImage, ChainType
<1>3. /\ Len(kernel') = Len(kernel) + 1 /\ \A i \in 1 .. Len(kernel) : kernel'[i] = kernel[i]
      /\ kernel'[Len(kernel) + 1] = up[1]
  BY <1>2, AppendEffect DEF ReadImage, ChainType
<1>4. /\ board = "image" /\ got' = got /\ down' = down /\ host' = host /\ file' = file /\ sent' = sent
      /\ left' = left - 1 /\ board' = (IF left = 1 THEN "loaded" ELSE "image")
  BY DEF ReadImage, hostVars
<1>5. host # "two" /\ (host = "wait" => \A i \in 1 .. Len(down) : down[i] # "3")
  BY <1>2 DEF Line, ThreesFrom
<1>6. host # "size" /\ host # "answer" BY <1>2, <1>4 DEF Line, Asking
<1>7. Line' BY <1>4, <1>5, <1>6 DEF Line
<1>8. AskInv' BY <1>4 DEF AskInv, Asking
<1>9. /\ left + Len(kernel) = FileLen[f] % Wrap /\ Stored(f)
      /\ \A j \in 1 .. Len(up) : up[j] = ImageByte(f, Len(kernel) + j)
      /\ host \in {"upload", "monitor"} => f = file /\ sent = Len(kernel) + Len(up)
  BY <1>4 DEF From, ImageInv
<1>10. Stored(f)'
  <2> SUFFICES ASSUME NEW i \in 1 .. Len(kernel') PROVE kernel'[i] = ImageByte(f, i)
    BY DEF Stored
  <2>1. CASE i \in 1 .. Len(kernel) BY <1>3, <1>9, <2>1 DEF Stored
  <2>2. CASE i = Len(kernel) + 1
    <3>1. 1 \in 1 .. Len(up) BY <1>2
    <3> QED BY <1>3, <1>9, <2>2, <3>1
  <2> QED BY <1>3, <2>1, <2>2
<1>11. \A j \in 1 .. Len(up') : up'[j] = ImageByte(f, Len(kernel') + j)
  <2> TAKE j \in 1 .. Len(up')
  <2>1. j + 1 \in 1 .. Len(up) /\ Len(kernel) + (j + 1) = Len(kernel') + j /\ up'[j] = up[j + 1]
    BY <1>2, <1>3
  <2>2. up[j + 1] = ImageByte(f, Len(kernel) + (j + 1)) BY <1>9, <2>1
  <2> QED BY <2>1, <2>2
<1>12. left' + Len(kernel') = FileLen[f] % Wrap BY <1>3, <1>4, <1>9
<1>13. ImageInv(f)' BY <1>2, <1>3, <1>4, <1>6, <1>9, <1>10, <1>11, <1>12 DEF ImageInv
<1>14. LoadedInv(f)' BY <1>3, <1>4, <1>10, <1>12 DEF LoadedInv
<1> QED BY <1>4, <1>7, <1>8, <1>13, <1>14 DEF From, SizeInv

LEMMA StartKernelKeeps ==
    ASSUME Awake, StartKernel, NEW f \in Files, From(f)
    PROVE  Line' /\ AskInv' /\ From(f)'
<1>1. ChainType /\ ChainType' /\ Line /\ AskInv BY DEF Awake
<1> USE Lengths, <1>1
<1>2. /\ board = "loaded" /\ board' = "running" /\ got' = got /\ left' = left /\ kernel' = kernel
      /\ up' = up /\ down' = down /\ host' = host /\ file' = file /\ sent' = sent
  BY DEF StartKernel, hostVars
<1>3. Len(kernel) >= 1 /\ kernel[1] = ImageByte(f, 1) /\ Head(kernel) = kernel[1]
  <2>1. Len(kernel) >= 1 /\ Stored(f) BY <1>2 DEF From, LoadedInv
  <2>2. kernel # <<>> BY <2>1
  <2> QED BY <2>1, <2>2, TailEffect DEF Stored, ChainType
<1>4. HasElfHeader <=> f \in Elf BY <1>3 DEF HasElfHeader, ImageByte
<1>5. entry' = IF f \in Elf THEN "header" ELSE "load" BY <1>4 DEF StartKernel
<1>6. host # "two" /\ host # "size" /\ host # "answer" BY <1>2 DEF Line, ThreesFrom, Asked, Asking
<1>7. host = "wait" => \A i \in 1 .. Len(down) : down[i] # "3" BY <1>2 DEF Line, ThreesFrom, Asked
<1>8. Line' BY <1>2, <1>6, <1>7 DEF Line
<1>9. AskInv' BY <1>2 DEF AskInv, Asking
<1>10. From(f)' BY <1>2, <1>5 DEF From, SizeInv, ImageInv, LoadedInv, Stored
<1> QED BY <1>8, <1>9, <1>10

LEMMA KernelPrintsKeeps ==
    ASSUME Awake, KernelPrints, NEW f \in Files, From(f)
    PROVE  Line' /\ AskInv' /\ From(f)'
<1>1. ChainType /\ ChainType' /\ Line /\ AskInv BY DEF Awake
<1> USE Lengths, <1>1
<1>2. /\ board = "running" /\ board' = board /\ got' = got /\ left' = left /\ kernel' = kernel /\ entry' = entry
      /\ up' = up /\ host' = host /\ file' = file /\ sent' = sent
  BY DEF KernelPrints, boardVars, hostVars
<1>3. host # "two" /\ host # "size" /\ host # "answer" BY <1>2 DEF Line, ThreesFrom, Asked, Asking
<1>4. Len(down) = 0 BY DEF KernelPrints
<1>5. /\ host = "closed" => Len(down') = 0
      /\ host # "closed" => \A i \in 1 .. Len(down') : down'[i] = "text"
  BY <1>4, SendOne DEF KernelPrints, ChainType, BoardBytes
<1>6. Line' BY <1>2, <1>3, <1>5 DEF Line
<1>7. AskInv' BY <1>2 DEF AskInv, Asking
<1>8. From(f)' BY <1>2 DEF From, SizeInv, ImageInv, LoadedInv, Stored
<1> QED BY <1>6, <1>7, <1>8

LEMMA KernelReadsKeeps ==
    ASSUME Awake, KernelReads, NEW f \in Files, From(f)
    PROVE  Line' /\ AskInv' /\ From(f)'
<1>1. ChainType /\ ChainType' /\ Line /\ AskInv BY DEF Awake
<1> USE Lengths, <1>1
<1>2. /\ board = "running" /\ board' = board /\ got' = got /\ left' = left /\ kernel' = kernel /\ entry' = entry
      /\ down' = down /\ host' = host /\ file' = file /\ sent' = sent
  BY DEF KernelReads, boardVars, hostVars
<1>3. host # "two" /\ host # "size" /\ host # "answer" BY <1>2 DEF Line, ThreesFrom, Asked, Asking
<1>4. host = "wait" => \A i \in 1 .. Len(down) : down[i] # "3" BY <1>2 DEF Line, ThreesFrom, Asked
<1>5. Line' BY <1>2, <1>3, <1>4 DEF Line
<1>6. AskInv' BY <1>2 DEF AskInv, Asking
<1>7. From(f)' BY <1>2 DEF From, SizeInv, ImageInv, LoadedInv, Stored
<1> QED BY <1>5, <1>6, <1>7

LEMMA WaitKeeps ==
    ASSUME Awake, Wait, NEW f \in Files, From(f)
    PROVE  Line' /\ AskInv' /\ From(f)'
<1>1. ChainType /\ ChainType' /\ Line /\ AskInv BY DEF Awake
<1> USE Lengths, <1>1
<1>2. /\ board' = board /\ got' = got /\ left' = left /\ kernel' = kernel /\ entry' = entry
      /\ up' = up /\ host = "wait" /\ file' = file /\ sent' = sent /\ Asked' = Asked
  BY DEF Wait, boardVars, Asked
<1>3. /\ Len(down) \in Nat \ {0} /\ Head(down) = down[1] /\ Len(down') = Len(down) - 1
      /\ \A i \in 1 .. Len(down) - 1 : down'[i] = down[i + 1]
  BY TailEffect DEF Wait, ChainType
<1>4. \A i \in 1 .. Len(down) : down[i] = "3" => ThreesFrom(i) BY <1>2 DEF Line
<1>5. CASE down[1] = "3"
  <2>1. host' = "two" BY <1>3, <1>5 DEF Wait
  <2>2. ThreesFrom(1) BY <1>3, <1>4, <1>5
  <2>3. ThreesFrom(1)' /\ Len(down') < Asked'
    <3>1. Asked \in Nat BY DEF Asked
    <3>2. \A j \in 1 .. Len(down') : j + 1 \in 1 .. Len(down) /\ down'[j] = down[j + 1] BY <1>3
    <3>3. \A j \in 1 .. Len(down') : down'[j] = "3" BY <2>2, <3>2 DEF ThreesFrom
    <3> QED BY <1>2, <1>3, <2>2, <3>1, <3>3 DEF ThreesFrom
  <2>4. Line' BY <2>1, <2>3 DEF Line
  <2>5. From(f)' BY <1>2, <2>1 DEF From, SizeInv, ImageInv, LoadedInv, Stored
  <2> QED BY <1>2, <2>4, <2>5 DEF AskInv
<1>6. CASE down[1] # "3"
  <2>1. host' = "wait" BY <1>3, <1>6 DEF Wait
  <2>2. ASSUME NEW i \in 1 .. Len(down'), down'[i] = "3" PROVE ThreesFrom(i)'
    <3>1. i + 1 \in 1 .. Len(down) /\ down[i + 1] = "3" BY <1>3, <2>2
    <3>2. ThreesFrom(i + 1) BY <1>4, <3>1
    <3>3. \A j \in i .. Len(down') : j + 1 \in i + 1 .. Len(down) /\ down'[j] = down[j + 1] BY <1>3
    <3>4. \A j \in i .. Len(down') : down'[j] = "3" BY <3>2, <3>3 DEF ThreesFrom
    <3>5. Len(down') - i < Asked'
      <4>1. Len(down) - (i + 1) < Asked BY <3>2 DEF ThreesFrom
      <4> QED BY <1>2, <1>3, <4>1
    <3> QED BY <1>2, <3>2, <3>4, <3>5 DEF ThreesFrom
  <2>3. Line' BY <2>1, <2>2 DEF Line
  <2>4. From(f)' BY <1>2, <2>1 DEF From, SizeInv, ImageInv, LoadedInv, Stored
  <2> QED BY <1>2, <2>3, <2>4 DEF AskInv
<1> QED BY <1>5, <1>6

LEMMA ReadTwoKeeps ==
    ASSUME Awake, ReadTwo, NEW f \in Files, From(f)
    PROVE  Line' /\ AskInv' /\ \E g \in Files : From(g)'
<1>1. ChainType /\ ChainType' /\ Line /\ AskInv BY DEF Awake
<1> USE Lengths, <1>1
<1>2. /\ board' = board /\ got' = got /\ left' = left /\ kernel' = kernel /\ entry' = entry
      /\ up' = up /\ host = "two" /\ file' = file /\ sent' = sent
  BY DEF ReadTwo, boardVars
<1>3. Len(down) >= 2 /\ ThreesFrom(1) /\ Len(down) < Asked BY <1>2 DEF ReadTwo, Line
<1>4. board = "size" /\ Len(down) = 2 /\ Len(got) = 0 /\ Len(up) = 0
  <2>1. Asked \in 0 .. 3 /\ (Asked = 3 => board = "size") BY DEF Asked
  <2>2. Asked = 3 /\ Len(down) = 2
    <3>1. \A n \in Nat, a \in 0 .. 3 : n >= 2 /\ n < a => a = 3 /\ n = 2 OBVIOUS
    <3>2. Len(down) \in Nat OBVIOUS
    <3> HIDE Lengths, <1>1
    <3> QED BY <1>3, <2>1, <3>1, <3>2
  <2> QED BY <1>3, <2>1, <2>2 DEF ThreesFrom
<1>5. CASE host' = "size" /\ down' = SubSeq(down, 3, Len(down))
  <2>1. Len(down') = 0
    <3>1. down \in Seq(BoardBytes) /\ Len(down) >= 2 BY <1>3 DEF ChainType
    <3>2. Len(SubSeq(down, 3, Len(down))) = Len(down) - 2 BY <3>1, DropTwo
    <3> QED BY <1>4, <1>5, <3>2
  <2>2. Line' BY <1>2, <1>4, <1>5, <2>1 DEF Line
  <2>3. sent = 0 BY <1>2 DEF ChainType, HostOK
  <2>4. From(file)
    BY <1>2, <1>4 DEF From, SizeInv, ImageInv, LoadedInv, SizeBytes
  <2>5. \E g \in Files : From(g)'
    <3>1. PICK g \in Files : g = file OBVIOUS
    <3>2. SizeInv(g)'
      BY <1>2, <1>4, <1>5, <2>3, <2>4, <3>1 DEF From, SizeInv, SizeBytes
    <3>3. From(g)' BY <1>2, <1>4, <3>2 DEF From, ImageInv, LoadedInv
    <3> QED BY <3>3
  <2> QED BY <1>2, <2>2, <2>5 DEF AskInv
<1>6. CASE host' = "closed" /\ down' = <<>>
  <2>1. Line' BY <1>6 DEF Line
  <2>2. From(f)' BY <1>2, <1>6 DEF From, SizeInv, ImageInv, LoadedInv, Stored
  <2> QED BY <1>2, <2>1, <2>2 DEF AskInv
<1> QED BY <1>5, <1>6 DEF ReadTwo, Close

LEMMA SendSizeKeeps ==
    ASSUME Awake, SendSize, NEW f \in Files, From(f)
    PROVE  Line' /\ AskInv' /\ From(f)'
<1>1. ChainType /\ ChainType' /\ Line /\ AskInv BY DEF Awake
<1> USE Lengths, <1>1
<1>2. /\ board' = board /\ got' = got /\ left' = left /\ kernel' = kernel /\ entry' = entry
      /\ down' = down /\ host = "size" /\ file' = file
  BY DEF SendSize, boardVars
<1>3. board = "size" /\ Len(down) = 0 /\ f = file /\ Len(got) + Len(up) = sent /\ sent < SizeBytes
  BY <1>2 DEF Line, From, SizeInv, ChainType, HostOK
<1>4. SizeByte(SizeDigit(FileLen[f], sent)) \in Bytes
  <2>1. SizeDigit(FileLen[f], sent) \in Digits BY <1>3, DigitIsDigit DEF SizeBytes
  <2> QED BY <2>1 DEF Bytes
<1>5. /\ Len(up') = Len(up) + 1 /\ \A i \in 1 .. Len(up) : up'[i] = up[i]
      /\ up'[Len(up) + 1] = SizeByte(SizeDigit(FileLen[f], sent))
  BY <1>3, <1>4, AppendEffect DEF SendSize, ChainType
<1>6. \/ host' = "size" /\ sent' = sent + 1 /\ sent + 1 # SizeBytes
      \/ host' = "answer" /\ sent + 1 = SizeBytes
  BY <1>2 DEF SendSize
<1>7. Line' BY <1>2, <1>3, <1>5, <1>6 DEF Line
<1>8. \A j \in 1 .. Len(up') : up'[j] = SizeByte(SizeDigit(FileLen[f], Len(got) + j - 1))
  <2> TAKE j \in 1 .. Len(up')
  <2>1. CASE j \in 1 .. Len(up) BY <1>3, <1>5, <2>1 DEF From, SizeInv
  <2>2. CASE j = Len(up) + 1
    <3>1. Len(got) + j - 1 = sent BY <1>3, <2>2
    <3> QED BY <1>5, <2>2, <3>1
  <2> QED BY <1>5, <2>1, <2>2
<1>9. Len(got) + Len(up') <= SizeBytes BY <1>3, <1>5 DEF SizeBytes
<1>10. \A i \in 1 .. Len(got) : got[i] = SizeDigit(FileLen[f], i - 1) BY <1>3 DEF From, SizeInv
<1>11. Len(kernel) = 0 BY <1>3 DEF From, SizeInv
<1>12. SizeInv(f)' BY <1>2, <1>3, <1>5, <1>6, <1>8, <1>9, <1>10, <1>11 DEF SizeInv
<1>13. From(f)' BY <1>2, <1>3, <1>12 DEF From, ImageInv, LoadedInv
<1>14. AskInv' BY <1>2, <1>3 DEF AskInv, Asking
<1> QED BY <1>7, <1>13, <1>14

LEMMA ReadAnswerKeeps ==
    ASSUME Awake, ReadAnswer, NEW f \in Files, From(f)
    PROVE  Line' /\ AskInv' /\ From(f)'
<1>1. ChainType /\ ChainType' /\ Line /\ AskInv BY DEF Awake
<1> USE Lengths, <1>1
<1>2. /\ board' = board /\ got' = got /\ left' = left /\ kernel' = kernel /\ entry' = entry
      /\ up' = up /\ host = "answer" /\ file' = file /\ sent' = sent
  BY DEF ReadAnswer, boardVars
<1>3. CASE SubSeq(down, 1, 2) = <<"O", "K">> /\ host' = "upload"
  <2>1. down \in Seq(BoardBytes) /\ Len(down) >= 2 BY DEF ReadAnswer, ChainType
  <2>2. down[1] = "O" BY <1>3, <2>1, FirstTwo
  <2>3. board = "image" /\ Len(up) = 0 /\ Len(kernel) = 0
    BY <1>2, <2>1, <2>2 DEF Line, AnswerFirst
  <2>4. sent = 0 /\ f = file BY <1>2, <2>3 DEF ChainType, HostOK, From, ImageInv
  <2>5. Line' BY <1>2, <1>3, <2>3 DEF Line
  <2>6. From(f)' BY <1>2, <1>3, <2>3, <2>4 DEF From, SizeInv, ImageInv, LoadedInv, Stored
  <2> QED BY <1>2, <2>5, <2>6 DEF AskInv
<1>4. CASE host' = "closed" /\ down' = <<>>
  <2>1. Line' BY <1>4 DEF Line
  <2>2. From(f)' BY <1>2, <1>4 DEF From, SizeInv, ImageInv, LoadedInv, Stored
  <2> QED BY <1>2, <2>1, <2>2 DEF AskInv
<1> QED BY <1>3, <1>4 DEF ReadAnswer, Close

LEMMA UploadKeeps ==
    ASSUME Awake, Upload, NEW f \in Files, From(f)
    PROVE  Line' /\ AskInv' /\ From(f)'
<1>1. ChainType /\ ChainType' /\ Line /\ AskInv BY DEF Awake
<1> USE Lengths, <1>1
<1>2. /\ board' = board /\ got' = got /\ left' = left /\ kernel' = kernel /\ entry' = entry
      /\ down' = down /\ host = "upload" /\ host' = "upload" /\ file' = file /\ sent' = sent + 1
  BY DEF Upload, boardVars
<1>3. board \in {"image", "loaded", "running"} BY <1>2 DEF Line
<1>4. ImageByte(file, sent + 1) \in Bytes BY DEF Bytes
<1>5. /\ Len(up') = Len(up) + 1 /\ \A i \in 1 .. Len(up) : up'[i] = up[i]
      /\ up'[Len(up) + 1] = ImageByte(file, sent + 1)
  BY <1>4, AppendEffect DEF Upload, ChainType
<1>6. ASSUME board = "image"
      PROVE  \A j \in 1 .. Len(up') : up'[j] = ImageByte(f, Len(kernel) + j)
  <2>1. /\ \A j \in 1 .. Len(up) : up[j] = ImageByte(f, Len(kernel) + j)
        /\ f = file /\ sent = Len(kernel) + Len(up)
    BY <1>2, <1>6 DEF From, ImageInv
  <2> TAKE j \in 1 .. Len(up')
  <2>2. CASE j \in 1 .. Len(up) BY <1>5, <2>1, <2>2
  <2>3. CASE j = Len(up) + 1
    <3>1. Len(kernel) + j = sent + 1 BY <2>1, <2>3
    <3> QED BY <1>5, <2>1, <2>3, <3>1
  <2> QED BY <1>5, <2>2, <2>3
<1>7. Line' BY <1>2, <1>3 DEF Line
<1>8. ImageInv(f)'
  <2> SUFFICES ASSUME board = "image" PROVE ImageInv(f)'
    BY <1>2 DEF ImageInv
  <2>1. /\ left + Len(kernel) = FileLen[f] % Wrap /\ Stored(f)
        /\ f = file /\ sent = Len(kernel) + Len(up)
    BY <1>2 DEF From, ImageInv
  <2>2. sent + 1 = Len(kernel) + Len(up') BY <1>5, <2>1
  <2>3. Stored(f)' BY <1>2, <2>1 DEF Stored
  <2> QED BY <1>2, <1>6, <2>1, <2>2, <2>3 DEF ImageInv
<1>9. From(f)' BY <1>2, <1>3, <1>8 DEF From, SizeInv, LoadedInv, Stored
<1>10. AskInv' BY <1>2, <1>3 DEF AskInv, Asking
<1> QED BY <1>7, <1>9, <1>10

LEMMA UploadDoneKeeps ==
    ASSUME Awake, UploadDone, NEW f \in Files, From(f)
    PROVE  Line' /\ AskInv' /\ From(f)'
<1>1. ChainType /\ ChainType' /\ Line /\ AskInv BY DEF Awake
<1> USE Lengths, <1>1
<1>2. /\ board' = board /\ got' = got /\ left' = left /\ kernel' = kernel /\ entry' = entry
      /\ down' = down /\ up' = up /\ host = "upload" /\ host' = "monitor" /\ file' = file /\ sent' = sent
  BY DEF UploadDone, boardVars
<1>3. board \in {"image", "loaded", "running"} BY <1>2 DEF Line
<1>4. Line' BY <1>2 DEF Line
<1>5. From(f)' BY <1>2, <1>3 DEF From, SizeInv, ImageInv, LoadedInv, Stored
<1> QED BY <1>2, <1>4, <1>5 DEF AskInv

LEMMA MonitorKeeps ==
    ASSUME Awake, Monitor, NEW f \in Files, From(f)
    PROVE  Line' /\ AskInv' /\ From(f)'
<1>1. ChainType /\ ChainType' /\ Line /\ AskInv BY DEF Awake
<1> USE Lengths, <1>1
<1>2. /\ board' = board /\ got' = got /\ left' = left /\ kernel' = kernel /\ entry' = entry
      /\ up' = up /\ host = "monitor" /\ host' = "monitor" /\ file' = file /\ sent' = sent
  BY DEF Monitor, boardVars, hostVars
<1>3. Line' BY <1>2 DEF Line
<1>4. From(f)' BY <1>2 DEF From, SizeInv, ImageInv, LoadedInv, Stored
<1> QED BY <1>2, <1>3, <1>4 DEF AskInv

LEMMA OpenKeeps ==
    ASSUME Awake, Open, NEW f \in Files, From(f)
    PROVE  Line' /\ AskInv' /\ From(f)'
<1>1. ChainType /\ ChainType' /\ Line /\ AskInv BY DEF Awake
<1> USE Lengths, <1>1
<1>2. /\ board' = board /\ got' = got /\ left' = left /\ kernel' = kernel /\ entry' = entry
      /\ up' = up /\ down' = down /\ host = "closed" /\ host' = "wait"
  BY DEF Open, boardVars
<1>3. Len(down) = 0 BY <1>2 DEF Line
<1>4. Line' BY <1>2, <1>3 DEF Line
<1>5. From(f)' BY <1>2 DEF From, SizeInv, ImageInv, LoadedInv, Stored
<1> QED BY <1>2, <1>4, <1>5 DEF AskInv

LEMMA KillSenderKeeps ==
    ASSUME Awake, KillSender, NEW f \in Files, From(f)
    PROVE  Line' /\ AskInv' /\ From(f)'
<1>1. ChainType /\ ChainType' /\ Line /\ AskInv BY DEF Awake
<1> USE Lengths, <1>1
<1>2. /\ board' = board /\ got' = got /\ left' = left /\ kernel' = kernel /\ entry' = entry
      /\ up' = up /\ Len(down') = 0 /\ host' = "closed"
  BY DEF KillSender, Close, boardVars
<1>3. Line' BY <1>2 DEF Line
<1>4. From(f)' BY <1>2 DEF From, SizeInv, ImageInv, LoadedInv, Stored
<1> QED BY <1>2, <1>3, <1>4 DEF AskInv

LEMMA NextLineInv == ChainType /\ ChainType' /\ LineInv /\ [Next]_vars => LineInv'
<1> SUFFICES ASSUME ChainType, ChainType', LineInv, [Next]_vars, quiet', board' # "off"
             PROVE  Line' /\ AskInv' /\ \E g \in Files : From(g)'
  BY DEF LineInv
<1> USE Lengths
<1>PowerOn. CASE PowerOn
  <2>1. /\ board' = "ask1" /\ got' = <<>> /\ kernel' = <<>> /\ up' = <<>> /\ down' = <<>>
        /\ host' \in {"closed", "wait", "monitor"} /\ Len(<<>>) = 0
    BY <1>PowerOn DEF PowerOn, hostVars
  <2>2. Line' BY <2>1 DEF Line
  <2>3. AskInv' BY <2>1 DEF AskInv
  <2>4. \A g \in Files : From(g)' BY <2>1 DEF From, SizeInv, ImageInv, LoadedInv
  <2> QED BY <2>2, <2>3, <2>4
<1>Reset. CASE Reset BY <1>Reset DEF Reset
<1>Lose. CASE LoseByte BY <1>Lose DEF LoseByte, boardVars
<1>1. ASSUME ~ PowerOn, ~ Reset, ~ LoseByte PROVE quiet /\ board # "off"
  <2>1. board = "off" => board' = "off"
    BY <1>1 DEF Next, Receiver, Sender, Ask, ReadSize, Refuse, Accept, ReadImage, StartKernel,
       KernelPrints, KernelReads, Wait, ReadTwo, SendSize, ReadAnswer, Upload, UploadDone, Monitor,
       Open, KillSender, vars, boardVars
  <2>2. quiet' = quiet
    BY <1>1 DEF Next, Receiver, Sender, Ask, ReadSize, Refuse, Accept, ReadImage, StartKernel,
       KernelPrints, KernelReads, Wait, ReadTwo, SendSize, ReadAnswer, Upload, UploadDone, Monitor,
       Open, KillSender, vars, boardVars
  <2> QED BY <2>1, <2>2
<1>2. CASE ~ PowerOn /\ ~ Reset /\ ~ LoseByte
  <2>1. Awake BY <1>1, <1>2 DEF LineInv, Awake
  <2>2. PICK f \in Files : From(f) BY <1>1, <1>2 DEF LineInv
  <2>Ask. CASE Ask BY <2>1, <2>2, <2>Ask, AskKeeps
  <2>ReadSize. CASE ReadSize BY <2>1, <2>2, <2>ReadSize, ReadSizeKeeps
  <2>Refuse. CASE Refuse BY <2>1, <2>2, <2>Refuse, RefuseKeeps
  <2>Accept. CASE Accept BY <2>1, <2>2, <2>Accept, AcceptKeeps
  <2>ReadImage. CASE ReadImage BY <2>1, <2>2, <2>ReadImage, ReadImageKeeps
  <2>StartKernel. CASE StartKernel BY <2>1, <2>2, <2>StartKernel, StartKernelKeeps
  <2>KernelPrints. CASE KernelPrints BY <2>1, <2>2, <2>KernelPrints, KernelPrintsKeeps
  <2>KernelReads. CASE KernelReads BY <2>1, <2>2, <2>KernelReads, KernelReadsKeeps
  <2>Wait. CASE Wait BY <2>1, <2>2, <2>Wait, WaitKeeps
  <2>SendSize. CASE SendSize BY <2>1, <2>2, <2>SendSize, SendSizeKeeps
  <2>ReadAnswer. CASE ReadAnswer BY <2>1, <2>2, <2>ReadAnswer, ReadAnswerKeeps
  <2>Upload. CASE Upload BY <2>1, <2>2, <2>Upload, UploadKeeps
  <2>UploadDone. CASE UploadDone BY <2>1, <2>2, <2>UploadDone, UploadDoneKeeps
  <2>Monitor. CASE Monitor BY <2>1, <2>2, <2>Monitor, MonitorKeeps
  <2>Open. CASE Open BY <2>1, <2>2, <2>Open, OpenKeeps
  <2>KillSender. CASE KillSender BY <2>1, <2>2, <2>KillSender, KillSenderKeeps
  <2>ReadTwo. CASE ReadTwo BY <2>1, <2>2, <2>ReadTwo, ReadTwoKeeps
  <2>Stutter. CASE UNCHANGED vars
    BY <2>1, <2>2, <2>Stutter
       DEF Awake, vars, boardVars, hostVars, Line, ThreesFrom, AnswerFirst, Asked, AskInv,
           From, SizeInv, ImageInv, LoadedInv, Stored
  <2> QED
    BY <1>2, <2>Ask, <2>ReadSize, <2>Refuse, <2>Accept, <2>ReadImage, <2>StartKernel,
       <2>KernelPrints, <2>KernelReads, <2>Wait, <2>ReadTwo, <2>SendSize, <2>ReadAnswer,
       <2>Upload, <2>UploadDone, <2>Monitor, <2>Open, <2>KillSender, <2>Stutter
       DEF Next, Receiver, Sender
<1> QED BY <1>PowerOn, <1>Reset, <1>Lose, <1>2

\* Both ends know where the other one is, through every kill, restart and reset.
THEOREM LineInvariance == Spec => []LineInv
<1>1. Init => LineInv BY InitLineInv
<1>2. ChainType /\ ChainType' /\ LineInv /\ [Next]_vars => LineInv' BY NextLineInv
<1> QED BY <1>1, <1>2, ChainTypeAlways, PTL DEF Spec

\* A kernel that was received on a quiet line is one file, whole, in order and entered
\* where its kind says, for every radix, every set of files, every line capacity and any
\* number of kills and resets.
THEOREM BootsOne == Spec => []BootsOneFile
<1>1. ChainType /\ LineInv => BootsOneFile
  <2> SUFFICES ASSUME ChainType, LineInv, board = "running", quiet
               PROVE  \E f \in Files : /\ kernel = Image(f, FileLen[f] % Wrap)
                                        /\ entry = IF f \in Elf THEN "header" ELSE "load"
    BY DEF BootsOneFile
  <2>1. PICK f \in Files : From(f) BY DEF LineInv
  <2>2. /\ Len(kernel) = FileLen[f] % Wrap /\ Stored(f)
        /\ entry = IF f \in Elf THEN "header" ELSE "load"
    BY <2>1 DEF From, LoadedInv
  <2>3. kernel = [i \in 1 .. Len(kernel) |-> kernel[i]] BY DEF ChainType
  <2>4. \A i \in 1 .. Len(kernel) : kernel[i] = ImageByte(f, i) BY <2>2 DEF Stored
  <2>5. kernel = [i \in 1 .. Len(kernel) |-> ImageByte(f, i)] BY <2>3, <2>4
  <2>6. kernel = Image(f, FileLen[f] % Wrap) BY <2>2, <2>5 DEF Image
  <2> QED BY <2>2, <2>6
<1> QED BY <1>1, ChainTypeAlways, LineInvariance, PTL

\* During an upload the receiver still expects exactly what is on the line and what
\* the sender has not sent.
THEOREM AlwaysInStep == Spec => []InStep
<1>1. ChainType /\ LineInv => InStep
  <2> SUFFICES ASSUME ChainType, LineInv, quiet, board = "image", host \in {"upload", "monitor"},
                      FileLen[file] < Wrap
               PROVE  left = Len(up) + (FileLen[file] - sent)
    BY DEF InStep
  <2> USE Lengths
  <2>1. PICK f \in Files : From(f) BY DEF LineInv
  <2>2. left + Len(kernel) = FileLen[f] % Wrap /\ f = file /\ sent = Len(kernel) + Len(up)
    BY <2>1 DEF From, ImageInv
  <2>3. FileLen[f] % Wrap = FileLen[f]
    <3>1. Wrap \in Nat \ {0} BY ChainAssumption DEF Wrap
    <3>2. \A n \in Nat, w \in Nat \ {0} : n < w => n % w = n OBVIOUS
    <3> QED BY <2>2, <3>1, <3>2
  <2> QED BY <2>2, <2>3
<1> QED BY <1>1, ChainTypeAlways, LineInvariance, PTL

=============================================================================
