---------------------------- MODULE SessionProofs ---------------------------
(***************************************************************************)
(* What survives restarts, crashes and failed writes, for every number of  *)
(* keys, names and onions: the published address, the book, and what names *)
(* stand for. The last needs what normalize_onion makes of whatever a user *)
(* types for an onion, which comes first.                                  *)
(***************************************************************************)
EXTENDS Session, SequenceTheorems, TLAPS

\* Trimming takes the spaces around and nothing else.
LEMMA SpacesTrimmed ==
  ASSUME NEW S, "space" \in S, NEW c \in Seq(S), c # <<>>, c[1] # "space", c[Len(c)] # "space"
  PROVE  /\ Trim(c) = c
         /\ Trim(<<"space">> \o c \o <<"space">>) = c
<1>1. Trim(c) = c
  BY DEF Trim, TrimStart, TrimEnd
<1> DEFINE sp == <<"space">>
           p == sp \o c
           t == p \o sp
           n == Len(c)
<1>2. n \in Nat \ {0} /\ sp \in Seq(S) /\ Len(sp) = 1 /\ sp[1] = "space"
  OBVIOUS
<1> HIDE DEF sp, n
<1>3. p \in Seq(S) /\ Len(p) = n + 1 /\ p[1] = "space" /\ \A i \in 1 .. n : p[i + 1] = c[i]
  <2>1. /\ p \in Seq(S)
        /\ Len(p) = Len(sp) + Len(c)
        /\ \A i \in 1 .. Len(sp) + Len(c) :
             p[i] = IF i <= Len(sp) THEN sp[i] ELSE c[i - Len(sp)]
    BY <1>2, ConcatProperties
  <2> HIDE DEF p
  <2>2. Len(c) = n
    BY DEF n
  <2>3. ASSUME NEW i \in 1 .. n PROVE p[i + 1] = c[i]
    <3>1. i + 1 \in 1 .. 1 + n /\ ~(i + 1 <= 1) /\ (i + 1) - 1 = i
      BY <1>2
    <3> QED BY <1>2, <2>1, <2>2, <3>1
  <2>4. 1 \in 1 .. 1 + n /\ 1 <= 1 /\ 1 + n = n + 1
    BY <1>2
  <2> QED BY <1>2, <2>1, <2>2, <2>3, <2>4
<1> HIDE DEF p
<1>4. t \in Seq(S) /\ Len(t) = n + 2 /\ t[n + 2] = "space" /\ \A i \in 1 .. n + 1 : t[i] = p[i]
  <2>1. /\ t \in Seq(S)
        /\ Len(t) = Len(p) + Len(sp)
        /\ \A i \in 1 .. Len(p) + Len(sp) :
             t[i] = IF i <= Len(p) THEN p[i] ELSE sp[i - Len(p)]
    BY <1>2, <1>3, ConcatProperties
  <2> HIDE DEF t
  <2> QED BY <1>2, <1>3, <2>1
<1> HIDE DEF t
<1>5. t # <<>> /\ t[1] = "space" /\ \A i \in 1 .. n : t[i + 1] = c[i]
  BY <1>2, <1>3, <1>4
<1> DEFINE u == SubSeq(t, 2, n + 2)
<1>6. u \in Seq(S) /\ Len(u) = n + 1 /\ \A i \in 1 .. n + 1 : u[i] = t[i + 1]
  <2>1. \A i \in 2 .. n + 2 : t[i] \in S
    BY <1>2, <1>4
  <2>2. 2 \in Int /\ n + 2 \in Int /\ 2 <= n + 2 /\ (n + 2) - 2 + 1 = n + 1
    BY <1>2
  <2>3. /\ u \in Seq(S)
        /\ Len(u) = IF 2 <= n + 2 THEN (n + 2) - 2 + 1 ELSE 0
        /\ \A i \in 1 .. (n + 2) - 2 + 1 : u[i] = t[2 + i - 1]
    BY <2>1, <2>2, SubSeqProperties
  <2> HIDE DEF u
  <2>4. \A i \in 1 .. n + 1 : 2 + i - 1 = i + 1
    BY <1>2
  <2> QED BY <2>2, <2>3, <2>4
<1>7. TrimStart(t) = u
  BY <1>4, <1>5 DEF TrimStart
<1> HIDE DEF u
<1>8. u # <<>> /\ u[n + 1] = "space" /\ \A i \in 1 .. n : u[i] = c[i]
  <2>1. (n + 1) + 1 = n + 2 /\ n + 1 \in 1 .. n + 1 /\ 1 .. n \subseteq 1 .. n + 1
    BY <1>2
  <2> QED BY <1>2, <1>4, <1>5, <1>6, <2>1
<1> DEFINE v == SubSeq(u, 1, n)
<1>9. v \in Seq(S) /\ Len(v) = n /\ \A i \in 1 .. n : v[i] = u[i]
  <2>1. \A i \in 1 .. n : u[i] \in S
    BY <1>2, <1>6
  <2>2. 1 \in Int /\ n \in Int /\ 1 <= n /\ n - 1 + 1 = n
    BY <1>2
  <2>3. /\ v \in Seq(S)
        /\ Len(v) = IF 1 <= n THEN n - 1 + 1 ELSE 0
        /\ \A i \in 1 .. n - 1 + 1 : v[i] = u[1 + i - 1]
    BY <2>1, <2>2, SubSeqProperties
  <2> HIDE DEF v
  <2>4. \A i \in 1 .. n : 1 + i - 1 = i
    BY <1>2
  <2> QED BY <2>2, <2>3, <2>4
<1>10. TrimEnd(u) = v
  <2>1. Len(u) - 1 = n
    BY <1>2, <1>6
  <2> QED BY <1>6, <1>8, <2>1 DEF TrimEnd
<1> HIDE DEF v
<1>11. v = c
  <2>1. Len(c) = n
    BY DEF n
  <2> QED BY <1>8, <1>9, <2>1, SeqEqual
<1>12. Trim(t) = c
  BY <1>7, <1>10, <1>11 DEF Trim
<1> QED BY <1>1, <1>12 DEF t, p, sp

\* split(':').next() is what comes before the first colon.
LEMMA FirstColon ==
  ASSUME NEW S, NEW s \in Seq(S), NEW n \in 1 .. Len(s), s[n] = "colon",
         \A i \in 1 .. n - 1 : s[i] # "colon"
  PROVE  BeforeColon(s) = SubSeq(s, 1, n - 1)
<1> DEFINE colons == {i \in DOMAIN s : s[i] = "colon"}
<1>1. n \in colons /\ colons \subseteq 1 .. Len(s) /\ \A j \in colons : n <= j
  <2>1. DOMAIN s = 1 .. Len(s)
    OBVIOUS
  <2>2. \A j \in 1 .. Len(s) : ~(n <= j) => j \in 1 .. n - 1
    OBVIOUS
  <2> QED BY <2>1, <2>2
<1>2. \A i \in colons : (\A j \in colons : i <= j) => i = n
  BY <1>1
<1>3. (CHOOSE i \in colons : \A j \in colons : i <= j) = n
  BY <1>1, <1>2
<1> QED BY <1>1, <1>3 DEF BeforeColon

\* Without a colon nothing is cut.
LEMMA NoColon ==
  ASSUME NEW S, NEW s \in Seq(S), \A i \in 1 .. Len(s) : s[i] # "colon"
  PROVE  BeforeColon(s) = s
BY DEF BeforeColon

\* A sequence of one word is that word.
LEMMA OneWord ==
  ASSUME NEW S, NEW s \in Seq(S), NEW o \in S, Len(s) = 1, s[1] = o
  PROVE  s = <<o>>
<1>1. <<o>> \in Seq(S) /\ Len(<<o>>) = 1 /\ <<o>>[1] = o
  OBVIOUS
<1> QED BY <1>1, SeqEqual

\* The beginning of a sequence.
LEMMA Beginning ==
  ASSUME NEW S, NEW s \in Seq(S), NEW n \in 0 .. Len(s)
  PROVE  /\ SubSeq(s, 1, n) \in Seq(S)
         /\ Len(SubSeq(s, 1, n)) = n
         /\ \A i \in 1 .. n : SubSeq(s, 1, n)[i] = s[i]
<1>1. \A i \in 1 .. n : s[i] \in S
  OBVIOUS
<1>2. 1 \in Int /\ n \in Int /\ n - 1 + 1 = n /\ (~(1 <= n) => n = 0)
  OBVIOUS
<1>3. /\ SubSeq(s, 1, n) \in Seq(S)
      /\ Len(SubSeq(s, 1, n)) = IF 1 <= n THEN n - 1 + 1 ELSE 0
      /\ \A i \in 1 .. n - 1 + 1 : SubSeq(s, 1, n)[i] = s[1 + i - 1]
  BY <1>1, <1>2, SubSeqProperties
<1>4. \A i \in 1 .. n : 1 + i - 1 = i
  OBVIOUS
<1> QED BY <1>2, <1>3, <1>4

\* What is left of a host name, with or without its suffix, is the service id.
LEMMA HostStripped ==
  ASSUME NEW S, NEW s \in Seq(S), NEW o \in S, o # "suffix", s[1] = o,
         Len(s) = 1 \/ (Len(s) = 2 /\ s[2] = "suffix")
  PROVE  StripSuffix(s) = <<o>>
<1>1. CASE Len(s) = 1
  <2>1. s = <<o>>
    BY <1>1, OneWord
  <2> QED BY <1>1, <2>1 DEF StripSuffix
<1>2. CASE Len(s) = 2 /\ s[2] = "suffix"
  <2>1. StripSuffix(s) = SubSeq(s, 1, 1)
    BY <1>2 DEF StripSuffix
  <2>2. 1 \in 0 .. Len(s) /\ 1 \in 1 .. 1
    BY <1>2
  <2>3. SubSeq(s, 1, 1) \in Seq(S) /\ Len(SubSeq(s, 1, 1)) = 1 /\ SubSeq(s, 1, 1)[1] = o
    BY <2>2, Beginning
  <2> QED BY <2>1, <2>3, OneWord
<1> QED BY <1>1, <1>2

\* A typed address begins with the host name, and any port comes after it.
LEMMA HostCut ==
  ASSUME NEW S, NEW s \in Seq(S), NEW n \in {1, 2}, NEW o \in S,
         o # "suffix", o # "colon", s[1] = o, n = 2 => s[2] = "suffix",
         Len(s) = n \/ (Len(s) = n + 2 /\ s[n + 1] = "colon")
  PROVE  StripSuffix(BeforeColon(s)) = <<o>>
<1>1. \A i \in 1 .. n : s[i] # "colon"
  OBVIOUS
<1>2. CASE Len(s) = n
  <2>1. BeforeColon(s) = s
    BY <1>1, <1>2, NoColon
  <2> QED BY <1>2, <2>1, HostStripped
<1>3. CASE Len(s) = n + 2 /\ s[n + 1] = "colon"
  <2>1. n + 1 \in 1 .. Len(s) /\ (n + 1) - 1 = n /\ n \in 0 .. Len(s)
    BY <1>3
  <2>2. BeforeColon(s) = SubSeq(s, 1, n)
    BY <1>1, <1>3, <2>1, FirstColon
  <2> DEFINE h == SubSeq(s, 1, n)
  <2>3. h \in Seq(S) /\ Len(h) = n /\ \A i \in 1 .. n : h[i] = s[i]
    BY <2>1, Beginning
  <2> HIDE DEF h
  <2>4. h[1] = o /\ (n = 2 => h[2] = "suffix")
    BY <2>3
  <2>5. StripSuffix(h) = <<o>>
    BY <2>3, <2>4, HostStripped
  <2> QED BY <2>2, <2>5 DEF h
<1> QED BY <1>2, <1>3

\* Bare or suffixed, with a port or without, padded or not: what is stored and
\* dialed is the service id (tor.rs:231-239; the tests try five spellings of one).
THEOREM NormalizesToId ==
  ASSUME NEW o \in Onion, NEW typed \in Spelling(o)
  PROVE  normalize_onion(typed) = <<o>>
<1> DEFINE S == Word
<1>1. /\ o \in S /\ "suffix" \in S /\ "colon" \in S /\ "port" \in S /\ "space" \in S
      /\ o # "suffix" /\ o # "colon" /\ o # "port" /\ o # "space"
  BY ContactsAssumption DEF Word
<1> HIDE DEF S
<1>2. ASSUME NEW s \in Unpadded(o)
      PROVE  /\ s \in Seq(S) /\ s # <<>> /\ s[1] = o /\ s[Len(s)] # "space"
             /\ \E n \in {1, 2} :
                  /\ n = 2 => s[2] = "suffix"
                  /\ Len(s) = n \/ (Len(s) = n + 2 /\ s[n + 1] = "colon")
  <2>1. CASE s = <<o>>
    <3>1. s \in Seq(S) /\ Len(s) = 1 /\ s[1] = o
      BY <1>1, <2>1
    <3>2. 1 \in {1, 2} /\ 1 # 2 /\ s[Len(s)] = o /\ s # <<>>
      BY <3>1
    <3> QED BY <1>1, <3>1, <3>2
  <2>2. CASE s = <<o, "suffix">>
    <3>1. s \in Seq(S) /\ Len(s) = 2 /\ s[1] = o /\ s[2] = "suffix"
      BY <1>1, <2>2
    <3>2. 2 \in {1, 2} /\ s[Len(s)] # "space"
      BY <3>1
    <3>3. s # <<>>
      BY <2>2
    <3> QED BY <3>1, <3>2, <3>3
  <2>3. CASE s = <<o, "colon", "port">>
    <3>1. s \in Seq(S) /\ Len(s) = 3 /\ s[1] = o /\ s[2] = "colon" /\ s[3] = "port"
      BY <1>1, <2>3
    <3>2. 1 \in {1, 2} /\ 1 # 2 /\ Len(s) = 1 + 2 /\ s[1 + 1] = "colon" /\ s[Len(s)] = "port"
      BY <2>3, <3>1
    <3>3. s # <<>> /\ s[Len(s)] # "space"
      BY <3>1, <3>2
    <3> QED BY <3>1, <3>2, <3>3
  <2>4. CASE s = <<o, "suffix", "colon", "port">>
    <3>1. /\ s \in Seq(S) /\ Len(s) = 4 /\ s[1] = o /\ s[2] = "suffix"
          /\ s[3] = "colon" /\ s[4] = "port"
      BY <1>1, <2>4
    <3>2. 2 \in {1, 2} /\ Len(s) = 2 + 2 /\ s[2 + 1] = "colon" /\ s[Len(s)] = "port"
      <4>1. 2 \in {1, 2} /\ 2 + 2 = 4 /\ 2 + 1 = 3
        OBVIOUS
      <4> QED BY <3>1, <4>1
    <3>3. s[Len(s)] # "space"
      BY <3>2
    <3>4. s # <<>>
      BY <2>4
    <3> QED BY <3>1, <3>2, <3>3, <3>4
  <2> QED BY <2>1, <2>2, <2>3, <2>4 DEF Unpadded
<1>3. ASSUME NEW s \in Unpadded(o) PROVE StripSuffix(BeforeColon(s)) = <<o>>
  BY <1>1, <1>2, HostCut
<1>4. ASSUME NEW s \in Unpadded(o)
      PROVE  Trim(s) = s /\ Trim(<<"space">> \o s \o <<"space">>) = s
  <2>1. s \in Seq(S) /\ s # <<>> /\ s[1] # "space" /\ s[Len(s)] # "space"
    BY <1>1, <1>2
  <2> QED BY <1>1, <2>1, SpacesTrimmed
<1>5. PICK s \in Unpadded(o) : typed = s \/ typed = <<"space">> \o s \o <<"space">>
  BY DEF Spelling
<1>6. Trim(typed) = s
  BY <1>4, <1>5
<1> QED BY <1>3, <1>6 DEF normalize_onion

-----------------------------------------------------------------------------

\* A published address is on file; a key that is to be published is, too; a
\* key that is being saved is the first.
KeyInv ==
  /\ \A k \in announced : keyFile = k
  /\ phase \in {"publish", "load", "ui", "save", "write"} => key \in Key /\ keyFile = key
  /\ phase \in {"saveKey", "writeKey"} => key \in Key /\ announced = {}
  /\ supervisor # "none" => Published
  /\ service # NoKey => Published

\* The book of what the user means; the running book is that, and so is the
\* file, unless it is being saved or the last attempt to save it failed.
BookOf(m) == [n \in DOMAIN m |-> <<m[n]>>]

IdBook(b) == DOMAIN b \subseteq Name /\ b \in [DOMAIN b -> {<<o>> : o \in Onion}]

BookInv ==
  /\ IdBook(book)
  /\ bookFile \in {Absent, Torn} \/ IdBook(bookFile)
  /\ DOMAIN meant \subseteq Name /\ meant \in [DOMAIN meant -> Onion]
  /\ failed \in BOOLEAN
  /\ phase \in {"ui", "save", "write"} => book = BookOf(meant)
  /\ ~Saving /\ ~failed => Loaded(bookFile) = BookOf(meant)

PhaseOK == phase \in {"off", "saveKey", "writeKey", "publish", "load", "ui", "save", "write"}

SessionInv == OnionTypeOK /\ PhaseOK /\ KeyInv /\ BookInv

\* The book that the program starts with,
LEMMA EmptyIsIdBook == IdBook(EmptyBook)
BY DEF IdBook, EmptyBook

\* A book of ids is a book.
LEMMA IdBookIsBook == ASSUME NEW b, IdBook(b) PROVE IsBook(b)
<1>1. \A o \in Onion : <<o>> \in Seq(Word)
  BY DEF Word
<1> QED BY <1>1 DEF IdBook, IsBook

\* A book that was written is read back as it was.
LEMMA LoadedBook == ASSUME NEW b, IdBook(b) PROVE Loaded(b) = b
<1>1. DOMAIN b \in SUBSET Name /\ b \in [DOMAIN b -> Seq(Word)]
  BY IdBookIsBook DEF IsBook
<1>2. b # Absent /\ b # Torn
  BY <1>1, ContactsAssumption
<1> QED BY <1>2 DEF Loaded

\* Whatever is on file, a book of ids is loaded.
LEMMA LoadedIsIdBook ==
  ASSUME bookFile \in {Absent, Torn} \/ IdBook(bookFile)
  PROVE  IdBook(Loaded(bookFile))
<1>1. CASE bookFile \in {Absent, Torn}
  BY <1>1, EmptyIsIdBook DEF Loaded
<1>2. CASE IdBook(bookFile)
  BY <1>2, LoadedBook
<1> QED BY <1>1, <1>2

\* What the user means makes a book of ids.
LEMMA BookOfIsIdBook ==
  ASSUME NEW m, DOMAIN m \subseteq Name, m \in [DOMAIN m -> Onion]
  PROVE  IdBook(BookOf(m))
BY DEF IdBook, BookOf

\* What is read stands for itself.
LEMMA MeantOfBook ==
  ASSUME NEW b, IdBook(b), NEW m, m = [n \in DOMAIN b |-> b[n][1]]
  PROVE  DOMAIN m \subseteq Name /\ m \in [DOMAIN m -> Onion] /\ b = BookOf(m)
<1>1. ASSUME NEW n \in DOMAIN b PROVE b[n][1] \in Onion /\ <<b[n][1]>> = b[n]
  <2>1. PICK o \in Onion : b[n] = <<o>>
    BY <1>1 DEF IdBook
  <2> QED BY <2>1
<1>2. DOMAIN m = DOMAIN b /\ DOMAIN m \subseteq Name /\ m \in [DOMAIN m -> Onion]
  BY <1>1 DEF IdBook
<1>3. b = [n \in DOMAIN b |-> b[n]]
  BY DEF IdBook
<1>4. BookOf(m) = [n \in DOMAIN b |-> <<b[n][1]>>]
  BY <1>2 DEF BookOf
<1> QED BY <1>1, <1>2, <1>3, <1>4

\* At first there is no key, no service and no name.
LEMMA SessionInitInv == Init => SessionInv
<1> SUFFICES ASSUME Init PROVE SessionInv
  OBVIOUS
<1> USE DEF Init, OnionInit, ContactsInit
<1>1. OnionTypeOK /\ PhaseOK /\ KeyInv
  BY DEF OnionTypeOK, PhaseOK, KeyInv, Published
<1>2. BookOf(meant) = EmptyBook /\ DOMAIN meant = {} /\ meant \in [{} -> Onion]
  BY DEF BookOf, EmptyBook
<1>3. BookInv
  BY <1>2, EmptyIsIdBook DEF BookInv, Loaded
<1> QED BY <1>1, <1>3 DEF SessionInv

-----------------------------------------------------------------------------
(* Steps that leave one half of the state alone.                           *)

BookPhases == {"ui", "save", "write"}

\* Steps that leave the contacts alone and neither enter nor leave the UI,
LEMMA BookKept ==
  ASSUME BookInv, UNCHANGED contactVars,
         phase' = phase \/ (phase \notin BookPhases /\ phase' \notin BookPhases)
  PROVE  BookInv'
BY DEF BookInv, contactVars, BookPhases, Saving, IdBook, BookOf, Loaded, EmptyBook

\* and steps that leave the key and the service alone.
LEMMA OnionKept ==
  ASSUME OnionTypeOK, KeyInv, UNCHANGED onionVars,
         Published, Published'
  PROVE  OnionTypeOK' /\ KeyInv'
BY DEF OnionTypeOK, KeyInv, onionVars, Published

\* Publishing announces the key that is on file.
LEMMA PublishInv ==
  ASSUME OnionTypeOK, KeyInv, connect_and_publish, Published',
         phase \in {"publish", "load", "ui", "save", "write"}
  PROVE  OnionTypeOK' /\ KeyInv'
<1>1. key \in Key /\ keyFile = key
  BY DEF KeyInv
<1>2. OnionTypeOK'
  BY <1>1 DEF OnionTypeOK, connect_and_publish
<1>3. KeyInv'
  BY <1>1 DEF KeyInv, connect_and_publish, Published
<1> QED BY <1>2, <1>3

\* A start takes the key on file, or makes the first one and saves it.
LEMMA StartInv ==
  ASSUME SessionInv, Start \/ SaveKey
  PROVE  SessionInv'
<1> USE DEF SessionInv
<1>1. CASE Start
  <2>1. BookInv'
    BY <1>1, BookKept DEF Start, Main, BookPhases
  <2>2. CASE Main("off", "publish") /\ LoadKey
    <3>1. OnionTypeOK'
      BY <2>2, KeyAssumption DEF LoadKey, OnionTypeOK, Main, KeyInv, Published
    <3>2. KeyInv'
      BY <2>2 DEF LoadKey, KeyInv, Main, Published
    <3> QED BY <2>1, <2>2, <3>1, <3>2 DEF Main, PhaseOK
  <2>3. CASE Main("off", "saveKey") /\ GenerateKey
    <3>1. announced = {} /\ service = NoKey
      <4>1. announced = {}
        BY <2>3, KeyAssumption DEF GenerateKey, OnionTypeOK, KeyInv
      <4>2. service = NoKey
        BY <2>3, KeyAssumption DEF Main, GenerateKey, OnionTypeOK, KeyInv, Published
      <4> QED BY <4>1, <4>2
    <3>2. OnionTypeOK'
      BY <2>3, <3>1 DEF GenerateKey, OnionTypeOK
    <3>3. KeyInv'
      BY <2>3, <3>1 DEF GenerateKey, KeyInv, Main, Published
    <3> QED BY <2>1, <2>3, <3>2, <3>3 DEF Main, PhaseOK
  <2> QED BY <1>1, <2>2, <2>3 DEF Start
<1>2. CASE SaveKey
  <2>1. BookInv'
    BY <1>2, BookKept DEF SaveKey, Main, BookPhases
  <2>2. CASE Main("saveKey", "writeKey") /\ OpenKeyFile
    <3>1. OnionTypeOK' /\ KeyInv'
      BY <2>2 DEF OpenKeyFile, Open, OnionTypeOK, KeyInv, Main, Published
    <3> QED BY <2>1, <2>2, <3>1 DEF Main, PhaseOK
  <2>3. CASE Main("writeKey", "publish") /\ WriteKeyFile
    <3>1. OnionTypeOK' /\ KeyInv'
      BY <2>3 DEF WriteKeyFile, WriteAll, OnionTypeOK, KeyInv, Main, Published
    <3> QED BY <2>1, <2>3, <3>1 DEF Main, PhaseOK
  <2> QED BY <1>2, <2>2, <2>3 DEF SaveKey
<1> QED BY <1>1, <1>2

\* Loading: what the file does not hold is forgotten by everyone.
LEMMA LoadInv ==
  ASSUME SessionInv, LoadContacts
  PROVE  SessionInv'
<1> USE DEF SessionInv
<1>1. phase = "load" /\ phase' = "ui" /\ LoadBook /\ UNCHANGED onionVars
  BY DEF LoadContacts, Main
<1>2. OnionTypeOK' /\ KeyInv' /\ PhaseOK'
  BY <1>1, OnionKept DEF Published, PhaseOK
<1>3. IdBook(Loaded(bookFile))
  BY LoadedIsIdBook DEF BookInv
<1>4. IdBook(book') /\ bookFile' = bookFile
  BY <1>1, <1>3, EmptyIsIdBook DEF LoadBook
<1>5. failed' = (book' # Loaded(bookFile)) /\ failed' \in BOOLEAN
  BY <1>1 DEF LoadBook
<1>6. DOMAIN meant' \subseteq Name /\ meant' \in [DOMAIN meant' -> Onion] /\ book' = BookOf(meant')
  <2>1. CASE failed \/ book' # Loaded(bookFile)
    <3>1. meant' = [n \in DOMAIN book' |-> book'[n][1]]
      BY <1>1, <2>1 DEF LoadBook
    <3> QED BY <1>4, <3>1, MeantOfBook
  <2>2. CASE ~failed /\ book' = Loaded(bookFile)
    <3>1. meant' = meant
      BY <1>1, <2>2 DEF LoadBook
    <3> QED BY <1>1, <2>2, <3>1 DEF BookInv, Saving
  <2> QED BY <2>1, <2>2
<1>7. ~failed' => Loaded(bookFile') = BookOf(meant')
  BY <1>4, <1>5, <1>6
<1>8. BookInv'
  BY <1>1, <1>4, <1>5, <1>6, <1>7 DEF BookInv, IdBook, BookOf, Loaded, EmptyBook
<1> QED BY <1>2, <1>8

\* /add and /remove change the book and what the user means alike.
LEMMA CommandInv ==
  ASSUME SessionInv, AddContact \/ RemoveContact
  PROVE  SessionInv'
<1> USE DEF SessionInv
<1>1. phase = "ui" /\ phase' = "save" /\ UNCHANGED onionVars
  BY DEF AddContact, RemoveContact, Main
<1>2. OnionTypeOK' /\ KeyInv' /\ PhaseOK'
  BY <1>1, OnionKept DEF Published, PhaseOK
<1>3. book = BookOf(meant) /\ DOMAIN book = DOMAIN meant
  BY <1>1 DEF BookInv, BookOf
<1>4. /\ DOMAIN meant' \subseteq Name /\ meant' \in [DOMAIN meant' -> Onion]
      /\ book' = BookOf(meant') /\ failed' = failed /\ bookFile' = bookFile
  <2>1. CASE AddContact
    <3>1. PICK n \in Name, o \in Onion : \E typed \in Spelling(o) : add_contact(n, o, typed)
      BY <2>1 DEF AddContact
    <3>2. PICK typed \in Spelling(o) : add_contact(n, o, typed)
      BY <3>1
    <3>3. normalize_onion(typed) = <<o>>
      BY NormalizesToId
    <3>4. book' = [m \in DOMAIN meant \cup {n} |-> IF m = n THEN <<o>> ELSE <<meant[m]>>]
      BY <1>3, <3>2, <3>3 DEF add_contact, BookOf
    <3>5. meant' = [m \in DOMAIN meant \cup {n} |-> IF m = n THEN o ELSE meant[m]]
      BY <3>2 DEF add_contact
    <3>6. DOMAIN meant' \subseteq Name /\ meant' \in [DOMAIN meant' -> Onion]
      BY <3>5 DEF BookInv
    <3>7. book' = BookOf(meant')
      BY <3>4, <3>5 DEF BookOf
    <3> QED BY <3>2, <3>6, <3>7 DEF add_contact
  <2>2. CASE RemoveContact
    <3>1. PICK n \in Name : remove_contact(n)
      BY <2>2 DEF RemoveContact
    <3>2. book' = [m \in DOMAIN meant \ {n} |-> <<meant[m]>>]
      BY <1>3, <3>1 DEF remove_contact, BookOf
    <3>3. meant' = [m \in DOMAIN meant \ {n} |-> meant[m]]
      BY <3>1 DEF remove_contact
    <3>4. DOMAIN meant' \subseteq Name /\ meant' \in [DOMAIN meant' -> Onion]
      BY <3>3 DEF BookInv
    <3>5. book' = BookOf(meant')
      BY <3>2, <3>3 DEF BookOf
    <3> QED BY <3>1, <3>4, <3>5 DEF remove_contact
  <2> QED BY <2>1, <2>2
<1>5. IdBook(book')
  BY <1>4, BookOfIsIdBook
<1>6. BookInv'
  BY <1>1, <1>4, <1>5 DEF BookInv, Saving, IdBook, BookOf
<1> QED BY <1>2, <1>6

\* Saving: a whole file is the running book; anything else is a save to come,
\* or one that failed.
LEMMA SaveInv ==
  ASSUME SessionInv, SaveContacts \/ SaveFails
  PROVE  SessionInv'
<1> USE DEF SessionInv
<1>1. phase \in {"save", "write"} /\ phase' \in {"write", "ui"} /\ UNCHANGED onionVars
  BY DEF SaveContacts, SaveFails, Saving, Main
<1>2. OnionTypeOK' /\ KeyInv' /\ PhaseOK'
  BY <1>1, OnionKept DEF Published, PhaseOK
<1>3. book = BookOf(meant) /\ book' = book /\ meant' = meant
  BY <1>1 DEF BookInv, SaveContacts, SaveFails, OpenBookFile, WriteBookFile
<1>4. CASE SaveFails \/ (Main("save", "write") /\ OpenBookFile)
  <2>1. bookFile' \in {bookFile, Torn} /\ failed' \in BOOLEAN /\ (Saving' \/ failed')
    BY <1>4 DEF SaveFails, OpenBookFile, Open, Main, Saving, BookInv
  <2>2. BookInv'
    BY <1>1, <1>3, <2>1 DEF BookInv, IdBook, BookOf
  <2> QED BY <1>2, <2>2
<1>5. CASE Main("write", "ui") /\ WriteBookFile
  <2>1. bookFile' = book /\ failed' = FALSE /\ phase' = "ui"
    BY <1>5 DEF Main, WriteBookFile, WriteAll
  <2>2. Loaded(bookFile') = book
    BY <2>1, LoadedBook DEF BookInv
  <2>3. BookInv'
    BY <1>3, <2>1, <2>2 DEF BookInv, IdBook, BookOf, Loaded, EmptyBook
  <2> QED BY <1>2, <2>3
<1> QED BY <1>4, <1>5 DEF SaveContacts

\* Publication, the supervisor, Tor, an exit at any point, and a deleted key.
LEMMA OtherInv ==
  ASSUME SessionInv, Publish \/ Supervise \/ Exit \/ Tor \/ Rotate
  PROVE  SessionInv'
<1> USE DEF SessionInv
<1>1. CASE Publish
  <2>1. BookInv'
    BY <1>1, BookKept DEF Publish, Main, BookPhases
  <2>2. OnionTypeOK' /\ KeyInv'
    BY <1>1, PublishInv DEF Publish, Main, Published
  <2> QED BY <1>1, <2>1, <2>2 DEF Publish, Main, PhaseOK
<1>2. CASE Supervise
  <2>1. BookInv' /\ PhaseOK' /\ Published'
    BY <1>2, BookKept DEF Supervise, PhaseOK, Published
  <2>2. CASE Probe
    BY <1>2, <2>1, <2>2 DEF Supervise, Probe, OnionTypeOK, KeyInv, Published
  <2>3. CASE Republish
    <3>1. phase \in {"publish", "load", "ui", "save", "write"}
      BY <1>2 DEF Supervise, Published
    <3> QED BY <2>1, <2>3, <3>1, PublishInv DEF Republish
  <2> QED BY <1>2, <2>2, <2>3 DEF Supervise, supervise
<1>3. CASE Exit
  <2>1. OnionTypeOK' /\ KeyInv'
    BY <1>3 DEF Exit, TearDown, OnionTypeOK, KeyInv, Published
  <2>2. BookInv'
    <3>1. /\ phase' = "off" /\ book' = EmptyBook /\ UNCHANGED <<bookFile, meant>>
          /\ failed' = (failed \/ Saving)
      BY <1>3 DEF Exit
    <3>2. failed' \in BOOLEAN /\ (~failed' => ~failed /\ ~Saving)
      BY <3>1 DEF BookInv
    <3>3. ~failed' => Loaded(bookFile') = BookOf(meant')
      BY <3>1, <3>2 DEF BookInv
    <3> QED BY <3>1, <3>2, <3>3, EmptyIsIdBook DEF BookInv, IdBook
  <2> QED BY <1>3, <2>1, <2>2 DEF Exit, PhaseOK
<1>4. CASE Tor
  <2>1. BookInv' /\ PhaseOK'
    BY <1>4, BookKept DEF Tor, PhaseOK
  <2>2. OnionTypeOK' /\ KeyInv'
    BY <1>4 DEF Tor, TorStarts, ConnectionDies, OnionTypeOK, KeyInv, Published
  <2> QED BY <2>1, <2>2
<1>5. CASE Rotate
  <2>1. BookInv' /\ PhaseOK'
    BY <1>5, BookKept DEF Rotate, PhaseOK
  <2>2. OnionTypeOK' /\ KeyInv'
    BY <1>5 DEF Rotate, DeleteKey, OnionTypeOK, KeyInv, Published
  <2> QED BY <2>1, <2>2
<1> QED BY <1>1, <1>2, <1>3, <1>4, <1>5

\* The invariant survives every step,
LEMMA SessionNextInv == SessionInv /\ [Next]_vars => SessionInv'
<1> SUFFICES ASSUME SessionInv, [Next]_vars PROVE SessionInv'
  OBVIOUS
<1>1. CASE Next
  BY <1>1, StartInv, LoadInv, CommandInv, SaveInv, OtherInv DEF Next
<1>2. CASE UNCHANGED vars
  <2>1. BookInv'
    BY <1>2, BookKept DEF vars, SessionInv
  <2>2. OnionTypeOK' /\ KeyInv' /\ PhaseOK'
    BY <1>2 DEF vars, onionVars, SessionInv, OnionTypeOK, KeyInv, PhaseOK, Published
  <2> QED BY <2>1, <2>2 DEF SessionInv
<1> QED BY <1>1, <1>2

\* and holds throughout.
LEMMA SessionInvariant == Spec => []SessionInv
BY SessionInitInv, SessionNextInv, PTL DEF Spec

-----------------------------------------------------------------------------

\* All state keeps its type, and a service that Tor publishes is the running
\* process's, on a live connection to a running daemon.
THEOREM SessionTypeCorrect == Spec => []TypeOK
<1>1. SessionInv => TypeOK
  BY IdBookIsBook DEF SessionInv, BookInv, PhaseOK, TypeOK
<1> QED BY <1>1, SessionInvariant, PTL

\* Across any number of runs, crashes while the key is written included, an
\* address that was published is the one on file (tor.rs:84-86, 205-223).
THEOREM AddressStable == Spec => []AddressIsStable
<1>1. SessionInv => AddressIsStable
  BY DEF SessionInv, KeyInv, AddressIsStable
<1> QED BY <1>1, SessionInvariant, PTL

\* Every change is saved, in this run and before: a restart would load the book
\* on the screen, unless the last save or load failed (main.rs:86-93, 139-145;
\* app.rs:204-217).
THEOREM BookSurvives == Spec => []BookMatchesFile
<1>1. SessionInv => BookMatchesFile
  BY DEF SessionInv, BookInv, BookMatchesFile, Saving
<1> QED BY <1>1, SessionInvariant, PTL

\* Names and onions stand for each other as the user said, across restarts and
\* whatever the spelling (app.rs:92-101, 168, 204-217).
THEOREM NamesStayRight == Spec => []NamesAreRight
<1>1. ASSUME SessionInv, phase = "ui" PROVE NamesAreRight
  <2>1. book = BookOf(meant) /\ meant \in [DOMAIN meant -> Onion]
    BY <1>1 DEF SessionInv, BookInv
  <2>2. DOMAIN book = DOMAIN meant /\ \A n \in DOMAIN meant : book[n] = <<meant[n]>>
    BY <2>1 DEF BookOf
  <2>3. ASSUME NEW n \in DOMAIN meant PROVE Dialed(<<n>>) = <<meant[n]>>
    <3>1. Len(<<n>>) = 1 /\ <<n>>[1] = n
      OBVIOUS
    <3>2. Resolve(<<n>>) = <<meant[n]>>
      BY <2>2, <3>1 DEF Resolve
    <3>3. meant[n] \in Onion /\ <<meant[n]>> \in Spelling(meant[n])
      BY <2>1 DEF Spelling, Unpadded
    <3> QED BY <3>2, <3>3, NormalizesToId DEF Dialed
  <2>4. ASSUME NEW o \in Onion, NEW typed \in Spelling(o),
               {n \in DOMAIN meant : meant[n] = o} # {}
        PROVE  display_name(typed) = {<<n>> : n \in {m \in DOMAIN meant : meant[m] = o}}
    <3>1. normalize_onion(typed) = <<o>>
      BY NormalizesToId
    <3>2. {n \in DOMAIN book : book[n] = <<o>>} = {n \in DOMAIN meant : meant[n] = o}
      BY <2>2
    <3> QED BY <2>4, <3>1, <3>2 DEF display_name
  <2> QED BY <2>2, <2>3, <2>4 DEF NamesAreRight
<1>2. SessionInv => NamesAreRight
  BY <1>1 DEF NamesAreRight
<1> QED BY <1>2, SessionInvariant, PTL
=============================================================================
