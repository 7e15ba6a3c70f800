--------------------------- MODULE CaptureProofs ---------------------------
(***************************************************************************)
(* For any number of recordings, sizes of packets, header and word: a      *)
(* recording that is over is whole and its header is right, and a          *)
(* recording ends when it is asked to and no earlier, with the exceptions  *)
(* that RecordingWhole and EndsWhenAsked name.                             *)
(***************************************************************************)
EXTENDS Capture, TLAPS

USE SizesAssumption

LEMMA MaxOfTwo ==
    ASSUME NEW n \in Nat, NEW m \in Nat
    PROVE  Max({n, m}) \in Nat /\ (n <= m => Max({n, m}) = m)
<1> DEFINE Top(x) == x \in {n, m} /\ \A y \in {n, m} : x >= y
<1>1. \E x : Top(x)
    <2>1. CASE n <= m
        BY <2>1
    <2>2. CASE m <= n
        BY <2>2
    <2> QED
        BY <2>1, <2>2
<1>2. Top(Max({n, m}))
    <2> HIDE DEF Top
    <2>1. Top(CHOOSE x : Top(x))
        BY <1>1, Zenon
    <2> QED
        BY <2>1 DEF Max, Top
<1> QED
    BY <1>2

LEMMA Remainder ==
    ASSUME NEW n \in Int
    PROVE  n % Word \in 0 .. Word - 1 /\ (n \in 0 .. Word - 1 => n % Word = n)
<1> QED
    BY SMT

-----------------------------------------------------------------------------
\* How much is written is chosen by the device.
LEMMA WriteStep ==
    ASSUME NEW s \in Sessions, Write(s)
    PROVE  \E n \in Packets :
            /\ bytes' = [bytes EXCEPT ![s] = @ + n]
            /\ length' = [length EXCEPT ![handle[s]] = @ + n]
            /\ dataChunkSize' = IF wav THEN [dataChunkSize EXCEPT ![s] = (@ + n) % Word]
                                       ELSE dataChunkSize
<1> QED
    BY DEF Write

LEMMA InitInv == Init => TypeOK /\ HandleInv /\ FileInv
<1> SUFFICES ASSUME Init
             PROVE  TypeOK /\ HandleInv /\ FileInv
    OBVIOUS
<1>1. TypeOK
    <2>1. dataField \in [Sessions -> 0 .. Word - 1] /\ riffField \in [Sessions -> 0 .. Word - 1]
        BY DEF Init
    <2>2. garbage \in [Sessions -> 0 .. Word - 1] /\ dataChunkSize \in [Sessions -> 0 .. Word - 1]
        BY DEF Init
    <2>3. /\ wav \in BOOLEAN /\ stop \in BOOLEAN
          /\ pc \in [Sessions -> {"unborn", "done"} \cup Early \cup InLoop \cup Late]
          /\ path \in Sessions \cup {None} /\ handle \in [Sessions -> Sessions \cup {None}]
        BY DEF Init
    <2>4. /\ length \in [Sessions -> Nat] /\ bytes \in [Sessions -> 0 .. MaxBytes]
          /\ stopping \subseteq Sessions /\ mishaps \subseteq {"stop_forgotten", "overlap"}
        BY DEF Init
    <2> QED
        BY <2>1, <2>2, <2>3, <2>4 DEF TypeOK
<1>2. HandleInv
    BY DEF Init, HandleInv, InLoop, Late
<1>3. FileInv
    BY DEF Init, FileInv, OwnFile, NoFile
<1> QED
    BY <1>1, <1>2, <1>3

LEMMA StepType == TypeOK /\ HandleInv /\ [Next]_vars => TypeOK'
<1> SUFFICES ASSUME TypeOK, HandleInv, [Next]_vars
             PROVE  TypeOK'
    OBVIOUS
<1> USE DEF TypeOK, Goto, Note, disk, sizes, Early, InLoop, Late
<1>1. ASSUME NEW s \in Sessions, Record(s) PROVE TypeOK'
    BY <1>1 DEF Record
<1>2. ASSUME NEW s \in Sessions, OpenDevice(s) PROVE TypeOK'
    BY <1>2 DEF OpenDevice
<1>3. ASSUME NEW s \in Sessions, CreateFile(s) PROVE TypeOK'
    BY <1>3 DEF CreateFile
<1>4. ASSUME NEW s \in Sessions, OpenFile(s) PROVE TypeOK'
    BY <1>4 DEF OpenFile, HandleInv
<1>5. ASSUME NEW s \in Sessions, WriteHeader(s) PROVE TypeOK'
    <2>1. wav => handle[s] \in Sessions /\ Max({length[handle[s]], Header}) \in Nat
        BY <1>5, MaxOfTwo DEF WriteHeader, HandleInv
    <2>2. length' \in [Sessions -> Nat] /\ dataField' \in [Sessions -> 0 .. Word - 1]
        BY <1>5, <2>1 DEF WriteHeader
    <2> QED
        BY <1>5, <2>2 DEF WriteHeader
<1>6. ASSUME NEW s \in Sessions, Test(s) PROVE TypeOK'
    BY <1>6 DEF Test, After
<1>7. ASSUME NEW s \in Sessions, Read(s) PROVE TypeOK'
    BY <1>7 DEF Read
<1>8. ASSUME NEW s \in Sessions, Write(s) PROVE TypeOK'
    <2>1. PICK n \in Packets :
            /\ bytes' = [bytes EXCEPT ![s] = @ + n]
            /\ length' = [length EXCEPT ![handle[s]] = @ + n]
            /\ dataChunkSize' = IF wav THEN [dataChunkSize EXCEPT ![s] = (@ + n) % Word]
                                       ELSE dataChunkSize
        BY <1>8, WriteStep, Zenon
    <2>2. handle[s] \in Sessions /\ bytes[s] + n <= MaxBytes
        BY <1>8 DEF Write, HandleInv
    <2>3. (dataChunkSize[s] + n) % Word \in 0 .. Word - 1
        <3>1. dataChunkSize[s] + n \in Int
            OBVIOUS
        <3> QED
            BY <3>1, Remainder
    <2>4. length' \in [Sessions -> Nat] /\ bytes' \in [Sessions -> 0 .. MaxBytes]
        BY <2>1, <2>2
    <2>5. dataChunkSize' \in [Sessions -> 0 .. Word - 1]
        BY <2>1, <2>3
    <2> QED
        BY <1>8, <2>4, <2>5 DEF Write
<1>9. ASSUME NEW s \in Sessions, WriteDataSize(s) PROVE TypeOK'
    BY <1>9 DEF WriteDataSize
<1>10. ASSUME NEW s \in Sessions, WriteRiffSize(s) PROVE TypeOK'
    <2>1. handle[s] \in Sessions
        BY <1>10 DEF WriteRiffSize, HandleInv
    <2>2. (length[handle[s]] - Riff) % Word \in 0 .. Word - 1
        <3>1. length[handle[s]] - Riff \in Int
            BY <2>1
        <3> QED
            BY <3>1, Remainder
    <2>3. riffField' \in [Sessions -> 0 .. Word - 1]
        BY <1>10, <2>2 DEF WriteRiffSize
    <2> QED
        BY <1>10, <2>3 DEF WriteRiffSize
<1>11. ASSUME NEW s \in Sessions, Close(s) PROVE TypeOK'
    BY <1>11 DEF Close
<1>12. CASE StopRecord
    BY <1>12 DEF StopRecord, Running
<1>13. CASE UNCHANGED vars
    BY <1>13 DEF vars
<1> QED
    BY <1>1, <1>2, <1>3, <1>4, <1>5, <1>6, <1>7, <1>8, <1>9, <1>10, <1>11, <1>12, <1>13
       DEF Next, Block

LEMMA StepHandle == TypeOK /\ HandleInv /\ [Next]_vars => HandleInv'
<1> SUFFICES ASSUME TypeOK, HandleInv, [Next]_vars
             PROVE  HandleInv'
    OBVIOUS
<1>t. /\ pc \in [Sessions -> {"unborn", "done"} \cup Early \cup InLoop \cup Late]
      /\ path \in Sessions \cup {None} /\ handle \in [Sessions -> Sessions \cup {None}]
      /\ bytes \in [Sessions -> 0 .. MaxBytes]
    BY DEF TypeOK
<1> USE <1>t DEF HandleInv, Goto, disk, sizes, InLoop, Late
<1>1. ASSUME NEW s \in Sessions, Record(s) PROVE HandleInv'
    BY <1>1 DEF Record
<1>2. ASSUME NEW s \in Sessions, OpenDevice(s) PROVE HandleInv'
    BY <1>2 DEF OpenDevice
<1>3. ASSUME NEW s \in Sessions, CreateFile(s) PROVE HandleInv'
    BY <1>3 DEF CreateFile
<1>4. ASSUME NEW s \in Sessions, OpenFile(s) PROVE HandleInv'
    BY <1>4 DEF OpenFile
<1>5. ASSUME NEW s \in Sessions, WriteHeader(s) PROVE HandleInv'
    BY <1>5 DEF WriteHeader
<1>6. ASSUME NEW s \in Sessions, Test(s) PROVE HandleInv'
    BY <1>6 DEF Test, After
<1>7. ASSUME NEW s \in Sessions, Read(s) PROVE HandleInv'
    BY <1>7 DEF Read
<1>8. ASSUME NEW s \in Sessions, Write(s) PROVE HandleInv'
    BY <1>8 DEF Write
<1>9. ASSUME NEW s \in Sessions, WriteDataSize(s) PROVE HandleInv'
    BY <1>9 DEF WriteDataSize
<1>10. ASSUME NEW s \in Sessions, WriteRiffSize(s) PROVE HandleInv'
    BY <1>10 DEF WriteRiffSize
<1>11. ASSUME NEW s \in Sessions, Close(s) PROVE HandleInv'
    BY <1>11 DEF Close
<1>12. CASE StopRecord
    BY <1>12 DEF StopRecord
<1>13. CASE UNCHANGED vars
    BY <1>13 DEF vars
<1> QED
    BY <1>1, <1>2, <1>3, <1>4, <1>5, <1>6, <1>7, <1>8, <1>9, <1>10, <1>11, <1>12, <1>13
       DEF Next, Block

LEMMA StepFile == TypeOK /\ HandleInv /\ FileInv /\ [Next]_vars => FileInv'
<1> SUFFICES ASSUME TypeOK, HandleInv, FileInv, [Next]_vars
             PROVE  FileInv'
    OBVIOUS
<1>t. /\ pc \in [Sessions -> {"unborn", "done"} \cup Early \cup InLoop \cup Late]
      /\ path \in Sessions \cup {None} /\ handle \in [Sessions -> Sessions \cup {None}]
      /\ length \in [Sessions -> Nat] /\ bytes \in [Sessions -> 0 .. MaxBytes]
      /\ dataField \in [Sessions -> 0 .. Word - 1] /\ riffField \in [Sessions -> 0 .. Word - 1]
      /\ dataChunkSize \in [Sessions -> 0 .. Word - 1] /\ garbage \in [Sessions -> 0 .. Word - 1]
    BY DEF TypeOK
<1> USE <1>t DEF FileInv, OwnFile, Whole, NoFile, Goto, disk, sizes, Early, InLoop, Late
<1>1. ASSUME NEW s \in Sessions, Record(s) PROVE FileInv'
    BY <1>1 DEF Record, Note
<1>2. ASSUME NEW s \in Sessions, OpenDevice(s) PROVE FileInv'
    BY <1>2 DEF OpenDevice
<1>3. ASSUME NEW s \in Sessions, CreateFile(s) PROVE FileInv'
    BY <1>3 DEF CreateFile, Note, Writing
<1>4. ASSUME NEW s \in Sessions, OpenFile(s) PROVE FileInv'
    BY <1>4 DEF OpenFile
<1>5. ASSUME NEW s \in Sessions, WriteHeader(s) PROVE FileInv'
    <2> SUFFICES ASSUME "overlap" \notin mishaps
                 PROVE  FileInv'
        BY <1>5 DEF WriteHeader
    <2>1. handle[s] = s /\ length[s] = 0
        BY <1>5 DEF WriteHeader, HandleInv
    <2>2. Max({length[s], Header}) = Header
        BY <2>1, MaxOfTwo
    <2> QED
        BY <1>5, <2>1, <2>2 DEF WriteHeader
<1>6. ASSUME NEW s \in Sessions, Test(s) PROVE FileInv'
    BY <1>6 DEF Test, After
<1>7. ASSUME NEW s \in Sessions, Read(s) PROVE FileInv'
    BY <1>7 DEF Read
<1>8. ASSUME NEW s \in Sessions, Write(s) PROVE FileInv'
    <2> SUFFICES ASSUME "overlap" \notin mishaps
                 PROVE  FileInv'
        BY <1>8 DEF Write
    <2>1. PICK n \in Packets :
            /\ bytes' = [bytes EXCEPT ![s] = @ + n]
            /\ length' = [length EXCEPT ![handle[s]] = @ + n]
            /\ dataChunkSize' = IF wav THEN [dataChunkSize EXCEPT ![s] = (@ + n) % Word]
                                       ELSE dataChunkSize
        BY <1>8, WriteStep, Zenon
    <2>2. handle[s] = s /\ n \in Nat
        BY <1>8 DEF Write, HandleInv
    <2>3. bytes[s] + n < Word => (bytes[s] + n) % Word = bytes[s] + n
        <3> SUFFICES ASSUME bytes[s] + n < Word
                     PROVE  (bytes[s] + n) % Word = bytes[s] + n
            OBVIOUS
        <3>1. bytes[s] + n \in Int /\ bytes[s] + n \in 0 .. Word - 1
            BY <2>2
        <3> QED
            BY <3>1, Remainder
    <2>4. Whole(s)'
        <3>1. wav' = wav /\ garbage'[s] = garbage[s] /\ bytes'[s] = bytes[s] + n
            BY <1>8, <2>1 DEF Write
        <3>2. length'[s] = length[s] + n
            BY <2>1, <2>2
        <3>3. Whole(s)
            BY <1>8, <2>2 DEF Write
        <3>4. ASSUME wav, garbage[s] = 0, bytes[s] + n < Word PROVE dataChunkSize'[s] = bytes[s] + n
            <4>1. dataChunkSize[s] = bytes[s]
                BY <2>2, <3>3, <3>4
            <4>2. dataChunkSize'[s] = (dataChunkSize[s] + n) % Word
                BY <2>1, <3>4
            <4> QED
                BY <2>3, <3>4, <4>1, <4>2
        <3> QED
            BY <2>2, <3>1, <3>2, <3>3, <3>4
    <2>5. /\ pc' = [pc EXCEPT ![s] = "test"] /\ pc[s] = "write"
          /\ UNCHANGED <<wav, path, handle, dataField, riffField, garbage, mishaps>>
        BY <1>8 DEF Write
    <2>6. OwnFile(s)'
        BY <2>2, <2>4, <2>5
    <2>7. ASSUME NEW r \in Sessions, r # s PROVE OwnFile(r)'
        BY <2>1, <2>2, <2>5, <2>7
    <2> QED
        BY <2>6, <2>7
<1>9. ASSUME NEW s \in Sessions, WriteDataSize(s) PROVE FileInv'
    <2> SUFFICES ASSUME "overlap" \notin mishaps
                 PROVE  FileInv'
        BY <1>9 DEF WriteDataSize
    <2>1. handle[s] = s
        BY <1>9 DEF WriteDataSize, HandleInv
    <2>2. /\ pc' = [pc EXCEPT ![s] = "riff_size"] /\ pc[s] = "data_size"
          /\ dataField' = [dataField EXCEPT ![s] = dataChunkSize[s]]
          /\ UNCHANGED <<wav, path, handle, length, riffField, sizes, mishaps>>
        BY <1>9, <2>1 DEF WriteDataSize
    <2>3. OwnFile(s)'
        BY <2>1, <2>2
    <2>4. ASSUME NEW r \in Sessions, r # s PROVE OwnFile(r)'
        BY <2>2, <2>4
    <2> QED
        BY <2>3, <2>4
<1>10. ASSUME NEW s \in Sessions, WriteRiffSize(s) PROVE FileInv'
    BY <1>10 DEF WriteRiffSize
<1>11. ASSUME NEW s \in Sessions, Close(s) PROVE FileInv'
    BY <1>11 DEF Close
<1>12. CASE StopRecord
    BY <1>12 DEF StopRecord
<1>13. CASE UNCHANGED vars
    BY <1>13 DEF vars
<1> QED
    BY <1>1, <1>2, <1>3, <1>4, <1>5, <1>6, <1>7, <1>8, <1>9, <1>10, <1>11, <1>12, <1>13
       DEF Next, Block

-----------------------------------------------------------------------------
(***************************************************************************)
(* The theorems.                                                           *)
(***************************************************************************)
\* Every variable keeps its type; the sizes in memory and in the header stay within a word.
THEOREM TypeCorrect == Spec => []TypeOK
<1>1. TypeOK /\ HandleInv /\ [Next]_vars => (TypeOK /\ HandleInv)'
    BY StepType, StepHandle
<1> QED
    BY <1>1, InitInv, PTL DEF Spec

\* A recording that is over holds what was captured and its header says so, for any size of
\* the header and of a word: unless recordings overlap or the data does not fit.
THEOREM RecordingsAreWhole == Spec => []RecordingWhole
<1>1. TypeOK /\ HandleInv /\ FileInv /\ [Next]_vars => (TypeOK /\ HandleInv /\ FileInv)'
    BY StepType, StepHandle, StepFile
<1>2. ASSUME TypeOK, FileInv, "overlap" \notin mishaps,
             NEW s \in Sessions, pc[s] = "done", handle[s] # None
      PROVE  LET rest == bytes[s] + Header - Riff
             IN  /\ handle[s] = s
                 /\ length[s] = (IF wav THEN Header ELSE 0) + bytes[s]
                 /\ wav /\ garbage[s] = 0 /\ rest < Word =>
                        dataField[s] = bytes[s] /\ riffField[s] = rest
    <2> DEFINE rest == bytes[s] + Header - Riff
    <2>1. OwnFile(s) /\ bytes[s] \in Nat
        BY <1>2 DEF FileInv, TypeOK
    <2>2. handle[s] = s /\ Whole(s)
        BY <1>2, <2>1 DEF OwnFile
    <2>3. ASSUME wav, garbage[s] = 0, rest < Word PROVE dataField[s] = bytes[s] /\ riffField[s] = rest
        <3>1. bytes[s] < Word /\ rest \in 0 .. Word - 1
            BY <2>1, <2>3
        <3>2. dataField[s] = bytes[s]
            BY <1>2, <2>1, <2>2, <2>3, <3>1 DEF OwnFile, Whole
        <3>3. length[s] - Riff = rest
            BY <2>1, <2>2, <2>3 DEF Whole
        <3>4. riffField[s] = rest % Word
            BY <1>2, <2>1, <2>2, <2>3, <3>3 DEF OwnFile
        <3> QED
            BY <3>1, <3>2, <3>4, Remainder
    <2> QED
        BY <2>2, <2>3 DEF Whole
<1>3. TypeOK /\ FileInv => RecordingWhole
    BY <1>2 DEF RecordingWhole
<1> QED
    BY <1>1, <1>3, InitInv, PTL DEF Spec

-----------------------------------------------------------------------------
(***************************************************************************)
(* The flag.                                                               *)
(***************************************************************************)
LEMMA StepStop == TypeOK /\ StopInv /\ [Next]_vars => StopInv'
<1> SUFFICES ASSUME TypeOK, StopInv, [Next]_vars
             PROVE  StopInv'
    OBVIOUS
<1>0. /\ pc \in [Sessions -> {"unborn", "done"} \cup Early \cup InLoop \cup Late]
      /\ stop \in BOOLEAN /\ stopping \subseteq Sessions
    BY DEF TypeOK
<1> USE <1>0 DEF StopInv, Running, Goto, Note, disk, sizes, Early, InLoop, Late
<1>1. ASSUME NEW s \in Sessions, Record(s) PROVE StopInv'
    BY <1>1 DEF Record
<1>2. CASE StopRecord
    BY <1>2 DEF StopRecord
\* The other steps of a block take a session on, or out of the loop, and leave the flag alone.
<1>3. ASSUME NEW s \in Sessions, Block(s) PROVE StopInv'
    <2>1. UNCHANGED <<stop, stopping>> /\ mishaps \subseteq mishaps'
        BY <1>3 DEF Block, OpenDevice, CreateFile, OpenFile, WriteHeader, Test, Read, Write,
           WriteDataSize, WriteRiffSize, Close
    <2>2. /\ pc' = [pc EXCEPT ![s] = pc'[s]]
          /\ pc[s] # "unborn" /\ pc'[s] # "unborn"
          /\ pc'[s] \in Early \cup InLoop => pc[s] \in Early \cup InLoop
        BY <1>3 DEF Block, OpenDevice, CreateFile, OpenFile, WriteHeader, Test, Read, Write,
           WriteDataSize, WriteRiffSize, Close, After
    <2>3. Running' \subseteq Running \cup {s} /\ (s \in Running' => s \in Running)
        BY <2>2
    <2> QED
        BY <2>1, <2>2, <2>3
<1>4. CASE UNCHANGED vars
    BY <1>4 DEF vars
<1> QED
    BY <1>1, <1>2, <1>3, <1>4 DEF Next

\* A recording leaves its loop at the first look after a stop, and never without one,
\* unless a later record() has taken the flag down.
THEOREM RecordingsEndWhenAsked == Spec => EndsWhenAsked
<1>1. Init => StopInv
    BY DEF Init, StopInv, Running, Early, InLoop
<1>2. ASSUME TypeOK, StopInv, [Next]_vars, NEW s \in Sessions, pc[s] = "test", pc'[s] # "test"
      PROVE  IF s \in stopping THEN pc'[s] # "read" \/ "stop_forgotten" \in mishaps
             ELSE pc'[s] = "read"
    <2>1. ASSUME NEW t \in Sessions, Block(t) \/ Record(t)
          PROVE  t = s /\ Test(t)
        BY <1>2, <2>1 DEF TypeOK, Block, Record, OpenDevice, CreateFile, OpenFile, WriteHeader, Test,
           Read, Write, WriteDataSize, WriteRiffSize, Close, Goto
    <2>2. Test(s)
        BY <1>2, <2>1 DEF Next, vars, StopRecord
    <2>3. IF stop THEN pc'[s] # "read" ELSE pc'[s] = "read"
        <3>1. pc'[s] = IF stop THEN After ELSE "read"
            BY <1>2, <2>2 DEF Test, Goto, TypeOK
        <3>2. After # "read"
            BY DEF After
        <3> QED
            BY <3>1, <3>2
    <2>4. s \in Running
        BY <1>2 DEF Running, InLoop
    <2> QED
        BY <1>2, <2>3, <2>4 DEF StopInv
<1>3. TypeOK /\ StopInv /\ [Next]_vars =>
          [\A s \in Sessions : pc[s] = "test" /\ pc'[s] # "test" =>
               IF s \in stopping THEN pc'[s] # "read" \/ "stop_forgotten" \in mishaps
               ELSE pc'[s] = "read"]_vars
    BY <1>2
<1> QED
    BY <1>1, <1>3, StepStop, TypeCorrect, PTL DEF Spec, EndsWhenAsked

=============================================================================
