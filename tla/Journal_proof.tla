--------------------------- MODULE Journal_proof ---------------------------
(***************************************************************************)
(* Proofs about the decision log: its type, the bound on what interrupted  *)
(* appends can lose, that it implements the append-only log, and that its  *)
(* readers agree.                                                          *)
(***************************************************************************)
EXTENDS Observers, Planning_proof, SequenceTheorems

Line == Record \cup {Garbage}

-----------------------------------------------------------------------------
(* What one write does to the file.                                        *)

\* A write onto a terminated file adds one line and disturbs no other.
LEMMA PutExtends ==
  ASSUME FileTypeOK, ~unterminated,
         NEW text \in Line, NEW terminated \in BOOLEAN, Put(text, terminated)
  PROVE  /\ lines' = Append(lines, text)
         /\ lines' \in Seq(Line)
         /\ Len(lines') = Len(lines) + 1
         /\ DOMAIN lines' = 1..(Len(lines) + 1)
         /\ \A i \in 1..Len(lines) : lines'[i] = lines[i]
         /\ lines'[Len(lines) + 1] = text
         /\ lines' # <<>>
<1>1. lines \in Seq(Line) /\ lines' = Append(lines, text)
  BY DEF FileTypeOK, Put, Line
<1>2. QED
  <2>1. /\ Len(lines) \in Nat
        /\ Append(lines, text) \in Seq(Line) /\ Len(Append(lines, text)) = Len(lines) + 1
        /\ DOMAIN Append(lines, text) = 1..(Len(lines) + 1)
        /\ \A i \in 1..Len(lines) : Append(lines, text)[i] = lines[i]
        /\ Append(lines, text)[Len(lines) + 1] = text
    BY <1>1, AppendProperties, LenProperties
  <2>2. Append(lines, text) # <<>>
    BY <1>1
  <2>3. QED
    BY <1>1, <2>1, <2>2

\* A write onto an unterminated file spoils its last line and no other.
LEMMA PutGlues ==
  ASSUME FileTypeOK, unterminated,
         NEW text \in Line, NEW terminated \in BOOLEAN, Put(text, terminated)
  PROVE  /\ Len(lines) \in Nat \ {0}
         /\ lines' \in Seq(Line)
         /\ Len(lines') = Len(lines)
         /\ DOMAIN lines' = 1..Len(lines)
         /\ \A i \in 1..Len(lines) - 1 : lines'[i] = lines[i]
         /\ lines'[Len(lines)] = Garbage
         /\ lines' # <<>>
<1>1. /\ lines \in Seq(Line) /\ lines # <<>>
      /\ lines' = [lines EXCEPT ![Len(lines)] = Garbage]
  BY DEF FileTypeOK, Put, Line
<1>2. Len(lines) \in Nat \ {0}
  BY <1>1, EmptySeq
<1>3. Garbage \in Line
  BY DEF Line
<1>4. Len(lines) \in 1..Len(lines)
  BY <1>2
<1>5. /\ lines' \in Seq(Line)
      /\ Len(lines') = Len(lines)
      /\ \A j \in 1..Len(lines) : lines'[j] = IF j = Len(lines) THEN Garbage ELSE lines[j]
  BY <1>1, <1>3, <1>4, ExceptSeq
<1>6. lines' # <<>>
  BY <1>2, <1>5, EmptySeq
<1>7. DOMAIN lines' = 1..Len(lines)
  BY <1>5, LenProperties
<1>8. \A i \in 1..Len(lines) - 1 : i \in 1..Len(lines) /\ i # Len(lines)
  BY <1>2
<1>9. QED
  BY <1>2, <1>4, <1>5, <1>6, <1>7, <1>8

LEMMA PutType ==
  ASSUME FileTypeOK, NEW text \in Line, NEW terminated \in BOOLEAN, Put(text, terminated)
  PROVE  FileTypeOK'
<1>1. lines' \in Seq(Line) /\ lines' # <<>>
  <2>1. CASE unterminated
    BY <2>1, PutGlues
  <2>2. CASE ~unterminated
    BY <2>2, PutExtends
  <2>3. QED
    BY <2>1, <2>2
<1>2. unterminated' \in BOOLEAN
  BY DEF Put
<1>3. QED
  BY <1>1, <1>2 DEF FileTypeOK, Line

\* Every action is a write of a line, whole or in part, or of nothing.
LEMMA ActionsPut ==
  ASSUME Next
  PROVE  \/ \E text \in Line : /\ Put(text, TRUE)
                               /\ text # Garbage
                               /\ returned' = returned + 1
                               /\ interrupted' = interrupted
         \/ \E text \in Line : /\ Put(text, FALSE)
                               /\ returned' = returned
                               /\ interrupted' = interrupted + 1
         \/ UNCHANGED <<fileVars, returned>> /\ interrupted' = interrupted + 1
  BY GarbageIsNoRecord
     DEF Next, Complete, Interrupt, AppendRecord, InterruptAppend, Line

-----------------------------------------------------------------------------

\* The log keeps its type: lines that are records or garbage, and a missing
\* newline only at the end of a file that has a last line.
THEOREM JournalTypeCorrect == Spec => []TypeOK
<1>1. Init => TypeOK
  <2>1. <<>> \in Seq(Record \cup {Garbage})
    BY EmptySeq
  <2>2. SUFFICES ASSUME Init PROVE TypeOK
    OBVIOUS
  <2>3. FileTypeOK
    BY <2>1, <2>2 DEF Init, FileInit, FileTypeOK
  <2>4. QED
    BY <2>2, <2>3 DEF Init, TypeOK
<1>2. TypeOK /\ [Next]_vars => TypeOK'
  <2>1. SUFFICES ASSUME TypeOK, [Next]_vars PROVE TypeOK'
    OBVIOUS
  <2>2. CASE Next
    <3>1. FileTypeOK /\ TRUE \in BOOLEAN /\ FALSE \in BOOLEAN
      BY <2>1 DEF TypeOK
    <3>2. FileTypeOK'
      <4>1. UNCHANGED fileVars => FileTypeOK'
        BY <3>1 DEF FileTypeOK, fileVars
      <4>2. QED
        BY <2>2, <3>1, <4>1, ActionsPut, PutType
    <3>3. returned' \in Nat /\ interrupted' \in Nat
      BY <2>1, <2>2 DEF TypeOK, Next, Complete, Interrupt
    <3>4. QED
      BY <3>2, <3>3 DEF TypeOK
  <2>3. CASE UNCHANGED vars
    BY <2>1, <2>3 DEF TypeOK, FileTypeOK, vars
  <2>4. QED
    BY <2>1, <2>2, <2>3
<1>3. QED
  BY <1>1, <1>2, PTL DEF Spec

-----------------------------------------------------------------------------
(* Counting what can be read back.                                         *)

LEMMA ReadableFinite ==
  ASSUME FileTypeOK
  PROVE  IsFiniteSet(Readable) /\ Count \in Nat
<1>1. Readable \subseteq 1..Len(lines) /\ Len(lines) \in Nat
  BY LenProperties DEF FileTypeOK, Readable
<1>2. IsFiniteSet(1..Len(lines))
  BY <1>1, FS_Interval
<1>3. IsFiniteSet(Readable)
  BY <1>1, <1>2, FS_Subset
<1>4. QED
  BY <1>3, FS_CardinalityType DEF Count

\* A write onto a terminated file makes one more line readable, if it decodes.
LEMMA CountExtends ==
  ASSUME FileTypeOK, ~unterminated,
         NEW text \in Line, NEW terminated \in BOOLEAN, Put(text, terminated)
  PROVE  /\ Count' = IF text = Garbage THEN Count ELSE Count + 1
         /\ Len(lines') \in Readable' <=> text # Garbage
<1>1. Len(lines) \in Nat /\ DOMAIN lines = 1..Len(lines)
  BY LenProperties DEF FileTypeOK
<1>2. Readable' = IF text = Garbage THEN Readable ELSE Readable \cup {Len(lines) + 1}
  BY <1>1, PutExtends DEF Readable
<1>3. Len(lines) + 1 \notin Readable
  BY <1>1 DEF Readable
<1>4. Len(lines') \in Readable' <=> text # Garbage
  BY <1>1, PutExtends DEF Readable
<1>5. IsFiniteSet(Readable)
  BY ReadableFinite
<1>6. Count' = IF text = Garbage THEN Count ELSE Count + 1
  BY <1>2, <1>3, <1>5, FS_AddElement DEF Count
<1>7. QED
  BY <1>4, <1>6

\* A write onto an unterminated file leaves one line fewer readable, if the
\* line it is glued to did decode.
LEMMA CountGlues ==
  ASSUME FileTypeOK, unterminated,
         NEW text \in Line, NEW terminated \in BOOLEAN, Put(text, terminated)
  PROVE  /\ Count' = IF Len(lines) \in Readable THEN Count - 1 ELSE Count
         /\ Len(lines') \notin Readable'
<1>0. Len(lines) \in Nat \ {0}
  BY PutGlues
<1>1. DOMAIN lines = 1..Len(lines)
  BY LenProperties DEF FileTypeOK
<1>2. \A i \in 1..Len(lines) : i # Len(lines) => i \in 1..Len(lines) - 1
  BY <1>0
<1>3. Readable' = Readable \ {Len(lines)}
  BY <1>0, <1>1, <1>2, PutGlues DEF Readable
<1>4. Len(lines') \notin Readable'
  BY <1>3, PutGlues
<1>5. Count' = IF Len(lines) \in Readable THEN Count - 1 ELSE Count
  BY <1>3, ReadableFinite, FS_RemoveElement DEF Count
<1>6. QED
  BY <1>4, <1>5

\* Every interruption pays in advance for the record its tail may swallow.
LEMMA LossStep ==
  ASSUME TypeOK, LossIsBoundedInv, Next
  PROVE  LossIsBoundedInv'
<1>1. /\ FileTypeOK /\ Count \in Nat
      /\ returned \in Nat /\ interrupted \in Nat
      /\ returned + AtRisk <= Count + interrupted
  BY ReadableFinite DEF TypeOK, LossIsBoundedInv
<1>2. AtRisk \in Nat /\ (~unterminated => AtRisk = 0)
      /\ (unterminated => AtRisk = IF Len(lines) \in Readable THEN 2 ELSE 1)
  BY DEF AtRisk
<1>3. ASSUME NEW text \in Line, Put(text, TRUE), text # Garbage,
             returned' = returned + 1, interrupted' = interrupted
      PROVE  LossIsBoundedInv'
  <2>1. AtRisk' = 0
    BY <1>3 DEF AtRisk, Put
  <2>2. Count' = IF ~unterminated THEN Count + 1
                 ELSE IF Len(lines) \in Readable THEN Count - 1 ELSE Count
    BY <1>1, <1>3, CountGlues, CountExtends
  <2>3. returned' + AtRisk' <= Count' + interrupted'
    BY <1>1, <1>2, <1>3, <2>1, <2>2
  <2>4. QED
    BY <2>3 DEF LossIsBoundedInv
<1>4. ASSUME NEW text \in Line, Put(text, FALSE),
             returned' = returned, interrupted' = interrupted + 1
      PROVE  LossIsBoundedInv'
  <2>1. unterminated' = TRUE
    BY <1>4 DEF Put
  <2>2. CASE unterminated
    <3>1. /\ Count' = IF Len(lines) \in Readable THEN Count - 1 ELSE Count
          /\ Len(lines') \notin Readable'
      BY <1>1, <1>4, <2>2, CountGlues
    <3>2. AtRisk' = 1
      BY <2>1, <3>1 DEF AtRisk
    <3>3. returned' + AtRisk' <= Count' + interrupted'
      BY <1>1, <1>2, <1>4, <2>2, <3>1, <3>2
    <3>4. QED
      BY <3>3 DEF LossIsBoundedInv
  <2>3. CASE ~unterminated
    <3>1. /\ Count' = IF text = Garbage THEN Count ELSE Count + 1
          /\ Len(lines') \in Readable' <=> text # Garbage
      BY <1>1, <1>4, <2>3, CountExtends
    <3>2. AtRisk' = IF text = Garbage THEN 1 ELSE 2
      BY <2>1, <3>1 DEF AtRisk
    <3>3. returned' + AtRisk' <= Count' + interrupted'
      BY <1>1, <1>2, <1>4, <2>3, <3>1, <3>2
    <3>4. QED
      BY <3>3 DEF LossIsBoundedInv
  <2>4. QED
    BY <2>2, <2>3
<1>5. ASSUME UNCHANGED <<fileVars, returned>>, interrupted' = interrupted + 1
      PROVE  LossIsBoundedInv'
  <2>1. AtRisk' = AtRisk /\ Count' = Count
    BY <1>5 DEF AtRisk, Count, Readable, fileVars
  <2>2. returned' + AtRisk' <= Count' + interrupted'
    BY <1>1, <1>2, <1>5, <2>1
  <2>3. QED
    BY <2>2 DEF LossIsBoundedInv
<1>6. QED
  BY <1>3, <1>4, <1>5, ActionsPut

\* However the appends are cut short, the records that returned and can no
\* longer be read are at most as many as the interruptions.
THEOREM JournalLossIsBounded == Spec => []LossIsBounded
<1>1. Init => LossIsBoundedInv
  <2>1. SUFFICES ASSUME Init PROVE LossIsBoundedInv
    OBVIOUS
  <2>2. Readable = {} /\ AtRisk = 0
    BY <2>1 DEF Init, FileInit, Readable, AtRisk
  <2>3. Count = 0
    BY <2>2, FS_EmptySet DEF Count
  <2>4. QED
    BY <2>1, <2>2, <2>3 DEF Init, LossIsBoundedInv
<1>2. TypeOK /\ LossIsBoundedInv /\ [Next]_vars => LossIsBoundedInv'
  <2>1. SUFFICES ASSUME TypeOK, LossIsBoundedInv, UNCHANGED vars PROVE LossIsBoundedInv'
    BY LossStep
  <2>2. QED
    BY <2>1 DEF LossIsBoundedInv, AtRisk, Count, Readable, vars
<1>3. TypeOK /\ LossIsBoundedInv => LossIsBounded
  <2>1. SUFFICES ASSUME TypeOK, LossIsBoundedInv PROVE LossIsBounded
    OBVIOUS
  <2>2. AtRisk \in Nat /\ Count \in Nat /\ returned \in Nat /\ interrupted \in Nat
    BY <2>1, ReadableFinite DEF AtRisk, TypeOK
  <2>3. QED
    BY <2>1, <2>2 DEF LossIsBounded, LossIsBoundedInv
<1>4. QED
  BY <1>1, <1>2, <1>3, JournalTypeCorrect, PTL DEF Spec

-----------------------------------------------------------------------------
(* The file implements the append-only log.                                *)

\* A write settles one slot or none, and leaves the settled ones alone.
LEMMA PutSettles ==
  ASSUME FileTypeOK, NEW text \in Line, NEW terminated \in BOOLEAN, Put(text, terminated)
  PROVE  \/ Settled' = Settled
         \/ \E slot \in Line : Settled' = Append(Settled, slot)
<1>1. lines \in Seq(Line) /\ Len(lines) \in Nat /\ unterminated' = ~terminated
  BY LenProperties DEF FileTypeOK, Line, Put
<1>2. CASE ~unterminated
  <2>1. Settled = lines
    BY <1>2 DEF Settled
  <2>2. CASE terminated
    <3>1. Settled' = lines'
      BY <1>1, <2>2 DEF Settled
    <3>2. QED
      BY <1>2, <2>1, <3>1, PutExtends
  <2>3. CASE ~terminated
    <3>1. Settled' = SubSeq(lines', 1, Len(lines') - 1)
      BY <1>1, <2>3 DEF Settled
    <3>2. Len(lines') - 1 = Len(lines)
      BY <1>1, <1>2, PutExtends
    <3>3. /\ lines' \in Seq(Line)
          /\ \A i \in 1..Len(lines) : lines'[i] = lines[i] /\ lines[i] \in Line
      BY <1>1, <1>2, PutExtends, LenProperties
    <3>4. /\ SubSeq(lines', 1, Len(lines)) \in Seq(Line)
          /\ Len(SubSeq(lines', 1, Len(lines))) = Len(lines)
          /\ \A i \in 1..Len(lines) : SubSeq(lines', 1, Len(lines))[i] = lines[i]
      <4> DEFINE n == Len(lines)
      <4>1. n \in Nat /\ \A i \in 1..n : lines'[i] \in Line
        BY <1>1, <3>3
      <4>2. /\ SubSeq(lines', 1, n) \in Seq(Line)
            /\ Len(SubSeq(lines', 1, n)) = IF 1 <= n THEN n - 1 + 1 ELSE 0
            /\ \A i \in 1..n - 1 + 1 : SubSeq(lines', 1, n)[i] = lines'[1 + i - 1]
        <5> HIDE DEF n
        <5>1. QED
          BY <4>1, SubSeqProperties
      <4>3. QED
        BY <3>3, <4>1, <4>2
    <3>5. SubSeq(lines', 1, Len(lines)) = lines
      BY <1>1, <3>4, SeqEqual
    <3>6. QED
      BY <2>1, <3>1, <3>2, <3>5
  <2>4. QED
    BY <2>2, <2>3
<1>3. CASE unterminated
  <2> DEFINE n == Len(lines) - 1
  <2>1. /\ n \in Nat /\ Len(lines') - 1 = n
        /\ \A i \in 1..n : lines'[i] = lines[i] /\ lines[i] \in Line
    BY <1>1, <1>3, PutGlues, LenProperties
  <2>2. /\ SubSeq(lines, 1, n) \in Seq(Line)
        /\ Len(SubSeq(lines, 1, n)) = n
        /\ \A i \in 1..n : SubSeq(lines, 1, n)[i] = lines[i]
    <3> HIDE DEF n
    <3>1. QED
      BY <2>1, SubSeqProperties
  <2>3. Settled = SubSeq(lines, 1, n)
    BY <1>3 DEF Settled
  <2>4. CASE terminated
    <3>1. Settled' = lines'
      BY <1>1, <2>4 DEF Settled
    <3>2. /\ lines' \in Seq(Line) /\ Len(lines') = n + 1 /\ lines'[n + 1] = Garbage
          /\ Garbage \in Line
      <4>1. /\ lines' \in Seq(Line) /\ Len(lines) \in Nat \ {0} /\ Len(lines') = Len(lines)
            /\ lines'[Len(lines)] = Garbage
        BY <1>1, <1>3, PutGlues
      <4>2. Garbage \in Line
        BY DEF Line
      <4>3. QED
        BY <4>1, <4>2
    <3>3. lines' = Append(SubSeq(lines, 1, n), Garbage)
      <4> HIDE DEF n
      <4> DEFINE t == Append(SubSeq(lines, 1, n), Garbage)
      <4>1. /\ t \in Seq(Line) /\ Len(t) = n + 1 /\ t[n + 1] = Garbage
            /\ \A i \in 1..n : t[i] = lines[i]
        BY <2>2, <3>2, AppendProperties
      <4>2. \A i \in 1..n + 1 : lines'[i] = t[i]
        BY <2>1, <3>2, <4>1
      <4>3. QED
        <5> HIDE DEF t
        <5>1. lines' = t
          BY <3>2, <4>1, <4>2, SeqEqual
        <5>2. QED
          BY <5>1 DEF t
    <3>4. QED
      BY <2>3, <3>1, <3>2, <3>3
  <2>5. CASE ~terminated
    <3>1. Settled' = SubSeq(lines', 1, n)
      BY <1>1, <2>1, <2>5 DEF Settled
    <3>2. /\ SubSeq(lines', 1, n) \in Seq(Line)
          /\ Len(SubSeq(lines', 1, n)) = n
          /\ \A i \in 1..n : SubSeq(lines', 1, n)[i] = lines[i]
      <4> HIDE DEF n
      <4>1. \A i \in 1..n : lines'[i] \in Line
        BY <2>1
      <4>2. QED
        BY <2>1, <4>1, SubSeqProperties
    <3>3. SubSeq(lines', 1, n) = SubSeq(lines, 1, n)
      <4> HIDE DEF n
      <4>1. QED
        BY <2>2, <3>2, SeqEqual
    <3>4. QED
      BY <2>3, <3>1, <3>3
  <2>6. QED
    BY <2>4, <2>5
<1>4. QED
  BY <1>2, <1>3

\* Reading the file back can only ever find more settled slots, each as it was
\* written: the log is append-only whatever interrupts an append.
THEOREM JournalIsAppendOnly == Spec => ImplementsDecisionLog
<1>1. Init => DL!Init
  BY DEF Init, FileInit, DL!Init, Settled
<1>2. TypeOK /\ [Next]_vars => [DL!Extend]_Settled
  <2>1. SUFFICES ASSUME TypeOK, [Next]_vars PROVE [DL!Extend]_Settled
    OBVIOUS
  <2>2. CASE Next
    <3>1. \/ \E text \in Line, terminated \in BOOLEAN : Put(text, terminated)
          \/ UNCHANGED fileVars
      BY <2>2, ActionsPut
    <3>2. UNCHANGED fileVars => Settled' = Settled
      BY DEF Settled, fileVars
    <3>3. QED
      BY <2>1, <3>1, <3>2, PutSettles DEF TypeOK, DL!Extend, Line
  <2>3. CASE UNCHANGED vars
    BY <2>3 DEF Settled, vars
  <2>4. QED
    BY <2>1, <2>2, <2>3
<1>3. QED
  BY <1>1, <1>2, JournalTypeCorrect, PTL DEF Spec, ImplementsDecisionLog, DL!Spec
-----------------------------------------------------------------------------
(* The readers.                                                            *)

\* Places counted from one: each is taken, and by one alone.
LEMMA PlacesAreTaken ==
  ASSUME NEW D, IsFiniteSet(D), NEW ahead, Ranking(ahead, D),
         NEW place, place = [s \in D |-> Cardinality(ahead[s] \cup {s})]
  PROVE  /\ \A s \in D : place[s] \in 1..Cardinality(D)
         /\ \A s, t \in D : s \in ahead[t] => place[s] < place[t]
         /\ \A s, t \in D : place[s] = place[t] => s = t
         /\ \A k \in 1..Cardinality(D) : \E s \in D : place[s] = k
<1> DEFINE n == Cardinality(D)
           rank(s) == Cardinality(ahead[s])
<1>1. n \in Nat /\ \A s \in D : IsFiniteSet(ahead[s]) /\ rank(s) \in Nat /\ rank(s) < n
  BY FS_CardinalityType, RanksAreNumbers
<1>2. \A s, t \in D : s = t \/ s \in ahead[t] \/ t \in ahead[s]
  BY DEF Ranking
<1>3. \A s \in D : place[s] = rank(s) + 1
  <2>1. ASSUME NEW s \in D PROVE place[s] = rank(s) + 1
    <3>1. s \notin ahead[s] /\ IsFiniteSet(ahead[s])
      BY <1>1 DEF Ranking
    <3>2. Cardinality(ahead[s] \cup {s}) = Cardinality(ahead[s]) + 1
      BY <3>1, FS_AddElement
    <3>3. QED
      BY <3>2
  <2>2. QED
    BY <2>1
<1>4. \A s, t \in D : s \in ahead[t] => rank(s) < rank(t)
  BY RanksDiffer
<1>5. \A k \in 0..(n - 1) : \E s \in D : rank(s) = k
  BY <1>1, EveryRankIsTaken
<1> HIDE DEF n, rank
<1>6. \A s \in D : place[s] \in 1..n
  BY <1>1, <1>3
<1>7. \A s, t \in D : s \in ahead[t] => place[s] < place[t]
  BY <1>1, <1>3, <1>4
<1>8. \A s, t \in D : place[s] = place[t] => s = t
  BY <1>1, <1>2, <1>3, <1>4
<1>9. ASSUME NEW k \in 1..n PROVE \E s \in D : place[s] = k
  <2>1. PICK s \in D : rank(s) = k - 1
    BY <1>1, <1>5
  <2>2. QED
    BY <1>1, <1>3, <2>1
<1>10. QED
  BY <1>6, <1>7, <1>8, <1>9 DEF n

\* Record k is read from the line that k readable ones end with.
LEMMA LinesAreRead ==
  ASSUME FileTypeOK
  PROVE  /\ Count \in Nat /\ DOMAIN Records = 1..Count
         /\ \A k \in 1..Count : LineOf(k) \in Readable /\ Records[k] = lines[LineOf(k)]
         /\ \A k \in 1..Count : Records[k] \in Record
         /\ \A i \in Readable : i = LineOf(Count) \/ i < LineOf(Count)
<1> DEFINE ahead == [i \in Readable |-> {j \in Readable : j < i}]
           place == [i \in Readable |-> Cardinality(ahead[i] \cup {i})]
<1>1. IsFiniteSet(Readable) /\ Count \in Nat /\ Readable \subseteq Nat
      /\ \A i \in Readable : lines[i] \in Record
  <2>1. DOMAIN lines = 1..Len(lines) /\ Len(lines) \in Nat /\ \A i \in 1..Len(lines) : lines[i] \in Record \cup {Garbage}
    BY LenProperties, ElementOfSeq DEF FileTypeOK
  <2>2. QED
    BY <2>1, ReadableFinite DEF Readable
<1>2. Ranking(ahead, Readable)
  <2>1. \A i, j, k \in Readable : /\ ~(i < i)
                                  /\ i = j \/ i < j \/ j < i
                                  /\ i < j /\ j < k => i < k
    BY <1>1
  <2>2. QED
    BY <2>1 DEF Ranking
<1>3. place = [i \in Readable |-> Cardinality(ahead[i] \cup {i})]
  OBVIOUS
<1>4. ASSUME NEW i \in Readable PROVE place[i] = Cardinality({j \in Readable : j <= i})
  <2>1. ahead[i] = {j \in Readable : j < i}
    OBVIOUS
  <2>2. \A j \in Readable : j <= i <=> j < i \/ j = i
    BY <1>1
  <2> HIDE DEF ahead
  <2>3. {j \in Readable : j <= i} = ahead[i] \cup {i}
    BY <2>1, <2>2
  <2>4. QED
    BY <2>3
<1>5. \A i, j \in Readable : i < j => i \in ahead[j]
  OBVIOUS
<1> HIDE DEF ahead, place
<1>6. /\ \A i \in Readable : place[i] \in 1..Count
      /\ \A i, j \in Readable : i \in ahead[j] => place[i] < place[j]
      /\ \A k \in 1..Count : \E i \in Readable : place[i] = k
  <2> DEFINE R == Readable
  <2>1. IsFiniteSet(R) /\ Ranking(ahead, R) /\ place = [i \in R |-> Cardinality(ahead[i] \cup {i})]
    BY <1>1, <1>2, <1>3
  <2> HIDE DEF R
  <2>2. /\ \A i \in R : place[i] \in 1..Cardinality(R)
        /\ \A i, j \in R : i \in ahead[j] => place[i] < place[j]
        /\ \A k \in 1..Cardinality(R) : \E i \in R : place[i] = k
    BY <2>1, PlacesAreTaken
  <2>3. QED
    BY <2>2 DEF R, Count
<1>7. \A k \in 1..Count : LineOf(k) \in Readable /\ place[LineOf(k)] = k
  BY <1>4, <1>6 DEF LineOf
<1>8. DOMAIN Records = 1..Count /\ \A k \in 1..Count : Records[k] = lines[LineOf(k)]
  BY DEF Records
<1>9. ASSUME NEW i \in Readable PROVE i = LineOf(Count) \/ i < LineOf(Count)
  <2>1. place[i] \in 1..Count /\ Count \in 1..Count
    BY <1>1, <1>6
  <2>2. LineOf(Count) \in Readable /\ place[LineOf(Count)] = Count
    BY <1>7, <2>1
  <2> DEFINE last == LineOf(Count)
  <2>3. last \in Readable /\ place[last] = Count
    BY <2>2
  <2> HIDE DEF last
  <2>4. last < i => Count < place[i]
    BY <1>5, <1>6, <2>3
  <2>5. i \in Int /\ last \in Int /\ ~(Count < place[i])
    BY <1>1, <2>1, <2>3
  <2>6. i = last \/ i < last
    BY <2>4, <2>5
  <2>7. QED
    BY <2>6 DEF last
<1>10. QED
  BY <1>1, <1>7, <1>8, <1>9

\* Something was read exactly when there is a record, and the last is the newest.
LEMMA LatestIsLast ==
  ASSUME FileTypeOK, Records # <<>>
  PROVE  /\ Count \in Nat \ {0} /\ Records \in Seq(Record) /\ Len(Records) = Count
         /\ Latest = Records[Count] /\ Latest = LastRecord
<1>1. Count # 0
  <2>1. SUFFICES ASSUME Count = 0 PROVE Records = <<>>
    OBVIOUS
  <2>2. 1..Count = {}
    BY <2>1
  <2>3. QED
    BY <2>2 DEF Records
<1>2. Count \in Nat \ {0} /\ Count \in 1..Count
  BY <1>1, LinesAreRead
<1>3. Records \in Seq(Record) /\ Len(Records) = Count
  <2>1. Records \in [1..Count -> Record]
    BY LinesAreRead DEF Records
  <2> HIDE DEF Records
  <2>2. QED
    BY <1>2, <2>1
<1>4. Latest = lines[LineOf(Count)]
  BY <1>2, <1>3, LinesAreRead DEF Latest
<1>5. LineOf(Count) \in Readable /\ \A j \in Readable : j <= LineOf(Count)
  <2>1. \A i \in Readable : i \in Nat
    BY LenProperties DEF FileTypeOK, Readable
  <2>2. QED
    BY <1>2, <2>1, LinesAreRead
<1>6. LastRecord = lines[LineOf(Count)]
  <2> DEFINE i == CHOOSE i \in Readable : \A j \in Readable : j <= i
  <2>1. i \in Readable /\ \A j \in Readable : j <= i
    BY <1>5
  <2>2. \A j \in Readable : j \in Nat
    BY LenProperties DEF FileTypeOK, Readable
  <2>3. i <= LineOf(Count) /\ LineOf(Count) <= i
    BY <1>5, <2>1
  <2> HIDE DEF i
  <2>4. i = LineOf(Count)
    BY <1>5, <2>1, <2>2, <2>3
  <2>5. QED
    BY <2>4 DEF LastRecord, i
<1>7. QED
  BY <1>2, <1>3, <1>4, <1>6, LinesAreRead

\* Each record has a point of the chart, later ones of a day after earlier ones.
LEMMA RecordsArePlaced ==
  ASSUME FileTypeOK
  PROVE  /\ DOMAIN Curve = 1..Count
         /\ \A i \in 1..Count : /\ Place(i) \in 1..Count
                                /\ Curve[Place(i)] = [date |-> Records[i].asOf, equity |-> Records[i].equity]
         /\ \A k \in 1..Count : \E i \in 1..Count : Place(i) = k
         /\ \A i, j \in 1..Count : Records[i].asOf = Records[j].asOf /\ i < j => Place(i) < Place(j)
<1> DEFINE D == 1..Count
           day(i) == Records[i].asOf
           Before(j, i) == day(j) < day(i) \/ (day(j) = day(i) /\ j < i)
           ahead == [i \in D |-> {j \in D : Before(j, i)}]
           place == [i \in D |-> Cardinality(ahead[i] \cup {i})]
<1>1. Count \in Nat /\ DOMAIN Records = D /\ \A i \in D : i \in Int /\ day(i) \in Int
  BY LinesAreRead, RecordsHaveDays
<1>2. IsFiniteSet(D) /\ Cardinality(D) = Count
  BY <1>1, FS_Interval
<1>3. \A i, j, k \in D : /\ ~Before(i, i)
                         /\ i = j \/ Before(i, j) \/ Before(j, i)
                         /\ Before(i, j) /\ Before(j, k) => Before(i, k)
  <2>1. \A i \in D : i \in Int /\ day(i) \in Int
    BY <1>1
  <2> HIDE DEF D, day
  <2>2. QED
    BY <2>1
<1>4. Ranking(ahead, D)
  <2> HIDE DEF D, Before
  <2>1. QED
    BY <1>3 DEF Ranking
<1>5. place = [i \in D |-> Cardinality(ahead[i] \cup {i})]
  OBVIOUS
<1>6. ASSUME NEW i \in D PROVE place[i] = Place(i)
  <2> DEFINE upto == {j \in D : day(j) < day(i) \/ (day(j) = day(i) /\ j <= i)}
  <2>1. upto = ahead[i] \cup {i}
    <3>1. i \in D /\ \A j \in D : j \in Int /\ day(j) \in Int
      BY <1>1, <1>6
    <3>2. ahead[i] = {j \in D : Before(j, i)}
      BY <1>6
    <3> HIDE DEF D, day, ahead
    <3>3. \A j \in D : day(j) < day(i) \/ (day(j) = day(i) /\ j <= i) <=> Before(j, i) \/ j = i
      BY <3>1
    <3>4. QED
      BY <3>1, <3>2, <3>3
  <2>2. Place(i) = Cardinality(upto)
    <3>1. DOMAIN Records = D
      BY <1>1
    <3> HIDE DEF D
    <3>2. Place(i) = Cardinality({j \in D : \/ Records[j].asOf < Records[i].asOf
                                           \/ (Records[j].asOf = Records[i].asOf /\ j <= i)})
      BY <3>1 DEF Place
    <3>3. QED
      BY <3>2
  <2>3. place[i] = Cardinality(ahead[i] \cup {i})
    BY <1>6
  <2> HIDE DEF upto, ahead, place
  <2>4. QED
    BY <2>1, <2>2, <2>3
<1>7. \A i, j \in D : day(i) = day(j) /\ i < j => i \in ahead[j]
  OBVIOUS
<1> HIDE DEF ahead, place, D, day
<1>8. /\ \A i \in D : place[i] \in D
      /\ \A i, j \in D : i \in ahead[j] => place[i] < place[j]
      /\ \A i, j \in D : place[i] = place[j] => i = j
      /\ \A k \in D : \E i \in D : place[i] = k
  <2>1. D = 1..Cardinality(D)
    BY <1>2 DEF D
  <2>2. /\ \A i \in D : place[i] \in 1..Cardinality(D)
        /\ \A i, j \in D : i \in ahead[j] => place[i] < place[j]
        /\ \A i, j \in D : place[i] = place[j] => i = j
        /\ \A k \in 1..Cardinality(D) : \E i \in D : place[i] = k
    BY <1>2, <1>4, <1>5, PlacesAreTaken
  <2>3. QED
    BY <2>1, <2>2
<1>9. ASSUME NEW i \in D
      PROVE  Curve[Place(i)] = [date |-> Records[i].asOf, equity |-> Records[i].equity]
  <2>1. Place(i) \in DOMAIN Records
    BY <1>1, <1>6, <1>8
  <2> DEFINE at == CHOOSE x \in DOMAIN Records : Place(x) = Place(i)
  <2>2. at \in DOMAIN Records /\ Place(at) = Place(i)
    BY <1>1
  <2>3. at = i
    <3> HIDE DEF at
    <3>1. QED
      BY <1>1, <1>6, <1>8, <2>2
  <2>4. Curve[Place(i)] = [date |-> Records[at].asOf, equity |-> Records[at].equity]
    BY <2>1 DEF Curve
  <2> HIDE DEF at
  <2>5. QED
    BY <2>3, <2>4
<1>10. DOMAIN Curve = D
  BY <1>1 DEF Curve
<1>11. \A i \in D : Place(i) \in D
  BY <1>6, <1>8
<1>12. \A k \in D : \E i \in D : Place(i) = k
  BY <1>6, <1>8
<1>13. \A i, j \in D : day(i) = day(j) /\ i < j => Place(i) < Place(j)
  BY <1>6, <1>7, <1>8
<1>14. \A i \in D : Curve[Place(i)] = [date |-> Records[i].asOf, equity |-> Records[i].equity]
  BY <1>9
<1>15. QED
  BY <1>10, <1>11, <1>12, <1>13, <1>14 DEF D, day

LEMMA LargestIs ==
  ASSUME NEW S, NEW m \in S, S \subseteq Int, \A x \in S : x <= m
  PROVE  Max(S) = m
<1>1. \A x \in S : m >= x
  OBVIOUS
<1>2. Max(S) \in S /\ \A y \in S : Max(S) >= y
  BY <1>1, Zenon DEF Max
<1>3. Max(S) \in Int /\ m \in Int /\ Max(S) >= m /\ m >= Max(S)
  BY <1>1, <1>2
<1>4. QED
  BY <1>3

\* The chart ends each day on the record papercheck takes.
LEMMA ChartEndsOnPaper ==
  ASSUME FileTypeOK, \A i \in DOMAIN Records : Records[i].mode = "paper", NEW d \in PaperDays
  PROVE  Paper(d) = Charted(d) /\ \E r \in Record : Paper(d) = r.equity
<1> DEFINE I == {i \in 1..Count : Records[i].asOf = d}
           K == {k \in DOMAIN Curve : Curve[k].date = d}
           m == Max(I)
<1>1. Count \in Nat /\ DOMAIN Records = 1..Count
  BY LinesAreRead
<1>2. I # {} /\ IsFiniteSet(I) /\ \A i \in I : i \in Int
  <2>1. IsFiniteSet(1..Count)
    BY <1>1, FS_Interval
  <2>2. QED
    BY <1>1, <2>1, FS_Subset DEF PaperDays
<1>3. m \in I /\ \A i \in I : m >= i
  <2> HIDE DEF I
  <2>1. QED
    BY <1>2, LargestIsMember
<1>4. {i \in DOMAIN Records : Records[i].mode = "paper" /\ Records[i].asOf = d} = I
  BY <1>1
<1> HIDE DEF m
<1>5. Paper(d) = Records[m].equity
  <2> HIDE DEF I
  <2>1. QED
    BY <1>4 DEF Paper, m
<1>6. /\ Place(m) \in 1..Count /\ DOMAIN Curve = 1..Count
      /\ Curve[Place(m)] = [date |-> Records[m].asOf, equity |-> Records[m].equity]
  BY <1>3, RecordsArePlaced
<1>7. Place(m) \in K
  BY <1>3, <1>6
<1>8. ASSUME NEW k \in K PROVE k <= Place(m)
  <2>1. PICK i \in 1..Count : Place(i) = k
    BY <1>6, RecordsArePlaced
  <2>2. Curve[k] = [date |-> Records[i].asOf, equity |-> Records[i].equity]
    BY <2>1, RecordsArePlaced
  <2>3. i \in I
    BY <2>1, <2>2
  <2>4. i = m \/ i < m
    BY <1>2, <1>3, <2>3
  <2>5. Records[i].asOf = Records[m].asOf /\ m \in 1..Count
    BY <1>3, <2>3
  <2>6. i < m => Place(i) < Place(m)
    BY <2>1, <2>5, RecordsArePlaced
  <2>7. k \in Int /\ Place(m) \in Int
    BY <1>6
  <2> HIDE DEF K, I
  <2>8. QED
    BY <2>1, <2>4, <2>6, <2>7
<1>9. K \subseteq Int
  BY <1>6
<1> HIDE DEF K, I
<1>10. Max(K) = Place(m)
  BY <1>7, <1>8, <1>9, LargestIs
<1>11. Charted(d) = Records[m].equity
  BY <1>6, <1>10 DEF Charted, K
<1>12. Records[m] \in Record
  BY <1>3, LinesAreRead DEF I
<1>13. QED
  BY <1>5, <1>11, <1>12

\* An account papercheck can compare has something on it.
Solvent == \A r \in Record : r.equity > 0

LEMMA SelfIsNotApart ==
  ASSUME NEW a \in Nat \ {0}, NEW b \in Nat \ {0}
  PROVE  Absolute((100 * a) \div b - (100 * a) \div b) = 0
<1> DEFINE q == (100 * a) \div b
<1>1. q \in Int
  OBVIOUS
<1> HIDE DEF q
<1>2. q - q = 0
  BY <1>1
<1>3. QED
  BY <1>2 DEF Absolute, q

\* A replay that drew the paper curve has not diverged from it.
LEMMA SameCurveIsNotApart ==
  ASSUME Solvent, FileTypeOK, \A i \in DOMAIN Records : Records[i].mode = "paper"
  PROVE  LET check == PaperCheck([d \in PaperDays |-> Charted(d)])
         IN  check.note \/ check.apart = 0
<1> DEFINE replay == [d \in PaperDays |-> Charted(d)]
           first == Min(PaperDays)
           last == Max(PaperDays)
<1>1. PaperDays \subseteq Nat /\ IsFiniteSet(PaperDays) /\ \A d \in PaperDays : d \in Int
  <2> DEFINE days == PaperDays
  <2>1. From \in Nat /\ To \in Nat
    BY RecordsHaveDays
  <2>2. IsFiniteSet(From..To)
    BY <2>1, FS_Interval
  <2>3. days \in SUBSET (From..To)
    BY DEF PaperDays
  <2> HIDE DEF days
  <2>4. IsFiniteSet(days)
    BY <2>2, <2>3, FS_Subset
  <2>5. days \subseteq Nat /\ \A d \in days : d \in Int
    BY <2>1, <2>3
  <2>6. QED
    BY <2>4, <2>5 DEF days
<1>2. DOMAIN replay = PaperDays /\ PaperDays \cap DOMAIN replay = PaperDays
  OBVIOUS
<1>3. CASE Cardinality(PaperDays) < 2
  <2>1. PaperCheck(replay) = [note |-> TRUE]
    BY <1>2, <1>3 DEF PaperCheck
  <2>2. QED
    BY <2>1
<1>4. CASE ~(Cardinality(PaperDays) < 2)
  <2>1. PaperDays # {}
    BY <1>4, FS_EmptySet
  <2>2. first \in PaperDays /\ last \in PaperDays
    <3>1. first \in PaperDays
      BY <1>1, <2>1, MinIsMember
    <3>2. last \in PaperDays
      BY <1>1, <2>1, LargestIsMember
    <3>3. QED
      BY <3>1, <3>2
  <2>3. /\ replay[first] = Paper(first) /\ replay[last] = Paper(last)
        /\ Paper(first) \in Nat \ {0} /\ Paper(last) \in Nat \ {0}
    <3>1. ASSUME NEW d \in PaperDays PROVE replay[d] = Paper(d) /\ Paper(d) \in Nat \ {0}
      <4>1. Paper(d) = Charted(d)
        BY ChartEndsOnPaper
      <4>2. PICK r \in Record : Paper(d) = r.equity
        BY ChartEndsOnPaper
      <4>3. r.equity \in Int /\ r.equity > 0
        BY RecordsHaveDays DEF Solvent
      <4>4. Paper(d) \in Nat \ {0}
        BY <4>2, <4>3
      <4>5. replay[d] = Charted(d)
        OBVIOUS
      <4>6. QED
        BY <4>1, <4>4, <4>5
    <3> HIDE DEF replay, first, last
    <3>2. QED
      BY <2>2, <3>1
  <2>4. PaperCheck(replay).apart = Absolute((100 * Paper(last)) \div Paper(first)
                                              - (100 * replay[last]) \div replay[first])
    <3> HIDE DEF replay
    <3>1. PaperCheck(replay) =
            [note |-> FALSE, days |-> PaperDays,
             apart |-> Absolute((100 * Paper(last)) \div Paper(first)
                                  - (100 * replay[last]) \div replay[first])]
      BY <1>2, <1>4 DEF PaperCheck
    <3>2. QED
      BY <3>1
  <2> HIDE DEF replay, first, last
  <2>5. PaperCheck(replay).apart = Absolute((100 * Paper(last)) \div Paper(first)
                                              - (100 * Paper(last)) \div Paper(first))
    BY <2>3, <2>4
  <2>6. PaperCheck(replay).apart = 0
    BY <2>3, <2>5, SelfIsNotApart
  <2>7. QED
    BY <2>6 DEF replay
<1>5. QED
  BY <1>3, <1>4

\* With the days written in order a record is charted where it was written.
LEMMA ReturnIsTheCharts ==
  ASSUME Solvent, FileTypeOK, Records # <<>>, InOrder, TotalReturn # Unknown
  PROVE  TotalReturn.percent = (100 * Curve[Len(Curve)].equity) \div Curve[1].equity - 100
<1>1. /\ Count \in Nat \ {0} /\ DOMAIN Records = 1..Count /\ Len(Records) = Count
      /\ Latest = Records[Count] /\ \A i \in 1..Count : Records[i] \in Record
  BY LatestIsLast, LinesAreRead
<1>2. ASSUME NEW i \in 1..Count PROVE Place(i) = i
  <2> DEFINE upto == {j \in DOMAIN Records : \/ Records[j].asOf < Records[i].asOf
                                              \/ (Records[j].asOf = Records[i].asOf /\ j <= i)}
  <2>1. \A j \in 1..Count : /\ j \in Int /\ i \in Int
                            /\ Records[j].asOf \in Int /\ Records[i].asOf \in Int
                            /\ j < i => Records[j].asOf <= Records[i].asOf
                            /\ i < j => Records[i].asOf <= Records[j].asOf
    BY <1>1, <1>2, RecordsHaveDays DEF InOrder
  <2>2. upto = 1..i
    <3>1. \A j \in 1..Count : (\/ Records[j].asOf < Records[i].asOf
                              \/ (Records[j].asOf = Records[i].asOf /\ j <= i)) <=> j <= i
      BY <2>1
    <3>2. upto = {j \in 1..Count : j <= i}
      BY <1>1, <3>1
    <3> HIDE DEF upto
    <3>3. QED
      BY <1>1, <1>2, <3>2
  <2>3. Cardinality(1..i) = i
    BY <1>1, <1>2, FS_Interval
  <2>4. Place(i) = Cardinality(upto)
    BY DEF Place
  <2> HIDE DEF upto
  <2>5. QED
    BY <2>2, <2>3, <2>4
<1>3. \A i \in 1..Count : Curve[i].equity = Records[i].equity
  <2>1. ASSUME NEW i \in 1..Count PROVE Curve[i].equity = Records[i].equity
    <3>1. Curve[Place(i)] = [date |-> Records[i].asOf, equity |-> Records[i].equity]
      BY RecordsArePlaced
    <3>2. QED
      BY <1>2, <3>1
  <2>2. QED
    BY <2>1
<1>4. Len(Curve) = Count
  <2>1. DOMAIN Curve = 1..Count
    BY RecordsArePlaced
  <2>2. Curve = [k \in 1..Count |-> Curve[k]]
    BY <1>1 DEF Curve
  <2> HIDE DEF Curve
  <2>3. QED
    BY <1>1, <2>1, <2>2
<1>5. Curve[1].equity = Records[1].equity /\ Curve[Count].equity = Latest.equity
      /\ Records[1].equity \in Nat \ {0}
  BY <1>1, <1>3, RecordsHaveDays DEF Solvent
<1>6. CASE Count = 1
  <2>1. TotalReturn = [percent |-> 0]
    BY <1>1, <1>5, <1>6 DEF TotalReturn
  <2>2. \A e \in Nat \ {0} : (100 * e) \div e - 100 = 0
    <3>1. \A e \in Nat \ {0} : (e * 100) \div e = 100 /\ e * 100 = 100 * e
      OBVIOUS
    <3>2. QED
      BY <3>1
  <2>3. QED
    BY <1>1, <1>4, <1>5, <1>6, <2>1, <2>2
<1>7. CASE Count # 1
  <2>1. TotalReturn = [percent |-> (100 * Latest.equity) \div Curve[1].equity - 100]
    BY <1>1, <1>5, <1>7 DEF TotalReturn
  <2>2. QED
    BY <1>4, <1>5, <2>1
<1>8. QED
  BY <1>6, <1>7

\* The dashboard, papercheck and the next cycle tell one story of the file, however
\* many records of a day there are, in whatever order, and whatever was cut short.
THEOREM JournalReadersAgree ==
  ASSUME Solvent
  PROVE  Spec => []ObserversAgree
<1>1. TypeOK => ObserversAgree
  <2> SUFFICES ASSUME FileTypeOK, Records # <<>>
               PROVE  ObserversAgree
    BY DEF TypeOK, ObserversAgree
  <2>1. Latest = LastRecord
    BY LatestIsLast
  <2>2. (\A i \in DOMAIN Records : Records[i].mode = "paper") =>
          /\ \A d \in PaperDays : Paper(d) = Charted(d)
          /\ LET check == PaperCheck([d \in PaperDays |-> Charted(d)])
             IN  check.note \/ check.apart = 0
    BY ChartEndsOnPaper, SameCurveIsNotApart
  <2>3. InOrder /\ TotalReturn # Unknown =>
          TotalReturn.percent = (100 * Curve[Len(Curve)].equity) \div Curve[1].equity - 100
    BY ReturnIsTheCharts
  <2>4. QED
    BY <2>1, <2>2, <2>3 DEF ObserversAgree
<1>2. QED
  BY <1>1, JournalTypeCorrect, PTL
=============================================================================
