------------------------- MODULE PcmRecorderProofs -------------------------
(***************************************************************************)
(* For any number of packets and of blocks that write them, and any size   *)
(* of the buffer: no packet is in the file twice and none is missing, with *)
(* the exceptions that PcmRecorder names.                                  *)
(***************************************************************************)
EXTENDS PcmRecorder, TLAPS

USE BoundsAssumption

-----------------------------------------------------------------------------
(***************************************************************************)
(* Types.                                                                  *)
(***************************************************************************)
LEMMA InitType == Init => TypeOK /\ CountInv
<1> SUFFICES ASSUME Init
             PROVE  TypeOK /\ CountInv
    OBVIOUS
<1>1. pcmData \in Seq(1 .. MaxPackets) /\ file \in Seq(1 .. MaxPackets)
    BY DEF Init
<1>2. writeData \in [Flushes -> Seq(1 .. MaxPackets)]
    BY DEF Init
<1>3. flush \in [Flushes -> {"unborn", "copy", "look", "create", "extend", "empty", "done"}]
    BY DEF Init
<1>4. captured \in 0 .. MaxPackets /\ mishaps \subseteq Races
    BY DEF Init
<1>5. /\ isInterruptionRequested \in BOOLEAN /\ exists \in BOOLEAN
      /\ pc \in {"test", "read", "append", "write", "append_rest", "empty", "done"} /\ CountInv
    BY DEF Init, CountInv
<1> QED
    BY <1>1, <1>2, <1>3, <1>4, <1>5 DEF TypeOK

LEMMA StepType == TypeOK /\ CountInv /\ [Next]_vars => TypeOK' /\ CountInv'
<1> SUFFICES ASSUME TypeOK, CountInv, [Next]_vars
             PROVE  TypeOK' /\ CountInv'
    OBVIOUS
<1> USE DEF TypeOK, CountInv, Go, Step, Note, reader, blocks, Races
<1>1. CASE Stop
    BY <1>1 DEF Stop
<1>2. CASE Test
    BY <1>2 DEF Test
<1>3. CASE ReadNothing
    BY <1>3 DEF ReadNothing
<1>4. CASE Read
    <2>1. flush' \in [Flushes -> {"unborn", "copy", "look", "create", "extend", "empty", "done"}]
        BY <1>4 DEF Read
    <2>2. captured' \in 0 .. MaxPackets /\ captured' > 0 /\ pc' = "append"
        BY <1>4 DEF Read
    <2>3. UNCHANGED <<isInterruptionRequested, pcmData, writeData, exists, file, mishaps>>
        BY <1>4 DEF Read
    <2> QED
        BY <2>1, <2>2, <2>3
<1>5. CASE AppendPacket
    <2>1. captured \in 1 .. MaxPackets
        BY <1>5 DEF AppendPacket
    <2>2. pcmData' \in Seq(1 .. MaxPackets)
        BY <1>5, <2>1 DEF AppendPacket
    <2> QED
        BY <1>5, <2>2 DEF AppendPacket
<1>6. CASE OpenRest
    BY <1>6 DEF OpenRest
<1>7. CASE WriteRest
    <2>1. file' \in Seq(1 .. MaxPackets)
        BY <1>7 DEF WriteRest
    <2> QED
        BY <1>7, <2>1 DEF WriteRest
<1>8. CASE Finish
    <2>1. pcmData' \in Seq(1 .. MaxPackets)
        BY <1>8 DEF Finish
    <2> QED
        BY <1>8, <2>1 DEF Finish
<1>9. ASSUME NEW f \in Flushes, Copy(f) PROVE TypeOK' /\ CountInv'
    <2>1. writeData' \in [Flushes -> Seq(1 .. MaxPackets)]
        BY <1>9 DEF Copy
    <2> QED
        BY <1>9, <2>1 DEF Copy
<1>10. ASSUME NEW f \in Flushes, LookForFile(f) PROVE TypeOK' /\ CountInv'
    BY <1>10 DEF LookForFile
<1>11. ASSUME NEW f \in Flushes, CreateFile(f) PROVE TypeOK' /\ CountInv'
    BY <1>11 DEF CreateFile
<1>12. ASSUME NEW f \in Flushes, ExtendFile(f) PROVE TypeOK' /\ CountInv'
    <2>1. file' \in Seq(1 .. MaxPackets)
        BY <1>12 DEF ExtendFile
    <2> QED
        BY <1>12, <2>1 DEF ExtendFile
<1>13. ASSUME NEW f \in Flushes, Empty(f) PROVE TypeOK' /\ CountInv'
    <2>1. pcmData' \in Seq(1 .. MaxPackets)
        BY <1>13 DEF Empty
    <2> QED
        BY <1>13, <2>1 DEF Empty
<1>14. CASE UNCHANGED vars
    BY <1>14 DEF vars
<1> QED
    BY <1>1, <1>2, <1>3, <1>4, <1>5, <1>6, <1>7, <1>8, <1>9, <1>10, <1>11, <1>12, <1>13, <1>14
       DEF Next, Reader, Flush

-----------------------------------------------------------------------------
(***************************************************************************)
(* Sequences that rise.                                                    *)
(***************************************************************************)
LEMMA EmptyRises ==
    ASSUME NEW s \in Seq(Nat), NEW n \in Nat
    PROVE  Rising(<<>>) /\ Below(<<>>, n) /\ Before(s, <<>>)
<1> QED
    BY DEF Rising, Below, Before

LEMMA Concatenated ==
    ASSUME NEW s \in Seq(Nat), NEW t \in Seq(Nat), NEW n \in Nat,
           Rising(s), Rising(t), Before(s, t), Below(s, n), Below(t, n)
    PROVE  Rising(s \o t) /\ Below(s \o t, n)
<1>1. /\ s \o t \in Seq(Nat) /\ Len(s \o t) = Len(s) + Len(t)
      /\ \A i \in 1 .. Len(s \o t) :
            (s \o t)[i] = IF i <= Len(s) THEN s[i] ELSE t[i - Len(s)]
    OBVIOUS
<1>2. Below(s \o t, n)
    <2> SUFFICES ASSUME NEW i \in 1 .. Len(s \o t)
                 PROVE  (s \o t)[i] <= n
        BY DEF Below
    <2>1. CASE i <= Len(s)
        BY <1>1, <2>1 DEF Below
    <2>2. CASE i > Len(s)
        <3>1. i - Len(s) \in 1 .. Len(t)
            BY <1>1, <2>2
        <3> QED
            BY <1>1, <2>2, <3>1 DEF Below
    <2> QED
        BY <2>1, <2>2
<1>3. Rising(s \o t)
    <2> SUFFICES ASSUME NEW i \in 1 .. Len(s \o t), NEW j \in 1 .. Len(s \o t), i < j
                 PROVE  (s \o t)[i] < (s \o t)[j]
        BY DEF Rising
    <2>1. CASE j <= Len(s)
        BY <1>1, <2>1 DEF Rising
    <2>2. CASE i <= Len(s) /\ j > Len(s)
        <3>1. j - Len(s) \in 1 .. Len(t)
            BY <1>1, <2>2
        <3> QED
            BY <1>1, <2>2, <3>1 DEF Before
    <2>3. CASE i > Len(s)
        <3>1. i - Len(s) \in 1 .. Len(t) /\ j - Len(s) \in 1 .. Len(t)
            BY <1>1, <2>3
        <3>2. i - Len(s) < j - Len(s)
            BY <1>1, <2>3
        <3>3. t[i - Len(s)] < t[j - Len(s)]
            BY <3>1, <3>2 DEF Rising
        <3> QED
            BY <1>1, <2>3, <3>3
    <2> QED
        BY <2>1, <2>2, <2>3
<1> QED
    BY <1>2, <1>3

LEMMA Appended ==
    ASSUME NEW s \in Seq(Nat), NEW t \in Seq(Nat), NEW n \in Nat, NEW m \in Nat, n < m,
           Below(s, n), Below(t, n)
    PROVE  /\ Rising(t) => Rising(Append(t, m))
           /\ Below(Append(t, m), m) /\ Below(s, m)
           /\ Before(s, t) => Before(s, Append(t, m))
<1>1. /\ Append(t, m) \in Seq(Nat) /\ Len(Append(t, m)) = Len(t) + 1
      /\ \A i \in 1 .. Len(Append(t, m)) : Append(t, m)[i] = IF i <= Len(t) THEN t[i] ELSE m
    OBVIOUS
<1>2. \A i \in 1 .. Len(t) : t[i] \in Nat /\ t[i] < m
    BY DEF Below
<1>3. \A i \in 1 .. Len(s) : s[i] \in Nat /\ s[i] < m
    BY DEF Below
<1>4. ASSUME Rising(t) PROVE Rising(Append(t, m))
    BY <1>1, <1>2, <1>4 DEF Rising
<1>5. Below(Append(t, m), m) /\ Below(s, m)
    BY <1>1, <1>2, <1>3 DEF Below
<1>6. ASSUME Before(s, t) PROVE Before(s, Append(t, m))
    BY <1>1, <1>3, <1>6 DEF Before
<1> QED
    BY <1>4, <1>5, <1>6

LEMMA UptoGrows ==
    ASSUME NEW n \in Nat
    PROVE  Append(Upto(n), n + 1) = Upto(n + 1)
<1>1. Upto(n) \in Seq(Nat) /\ Len(Upto(n)) = n
    BY DEF Upto
<1>2. Upto(n + 1) \in Seq(Nat) /\ Len(Upto(n + 1)) = n + 1
    BY DEF Upto
<1>3. ASSUME NEW i \in 1 .. n + 1 PROVE Append(Upto(n), n + 1)[i] = Upto(n + 1)[i]
    BY <1>1, <1>3 DEF Upto
<1> QED
    BY <1>1, <1>2, <1>3

LEMMA AppendedLast ==
    ASSUME NEW s \in Seq(Nat), NEW t \in Seq(Nat), NEW x \in Nat
    PROVE  s \o Append(t, x) = Append(s \o t, x) /\ s \o <<>> = s /\ <<>> \o s = s
<1> QED
    OBVIOUS

\* The types the two invariants need.
LEMMA SequencesOfNaturals ==
    ASSUME TypeOK, CountInv
    PROVE  /\ file \in Seq(Nat) /\ pcmData \in Seq(Nat) /\ Latest \in Nat /\ captured \in Nat
           /\ \A f \in Flushes : writeData[f] \in Seq(Nat)
<1>1. \A s \in Seq(1 .. MaxPackets) : s \in Seq(Nat)
    OBVIOUS
<1> QED
    BY <1>1 DEF TypeOK, CountInv, Latest

-----------------------------------------------------------------------------
(***************************************************************************)
(* The order of what is in the file.                                       *)
(***************************************************************************)
LEMMA StepOrder == TypeOK /\ CountInv /\ OrderInv /\ [Next]_vars => OrderInv'
<1> SUFFICES ASSUME TypeOK, CountInv, OrderInv, [Next]_vars
             PROVE  OrderInv'
    OBVIOUS
<1>t. /\ pc \in {"test", "read", "append", "write", "append_rest", "empty", "done"}
      /\ flush \in [Flushes -> {"unborn", "copy", "look", "create", "extend", "empty", "done"}]
      /\ writeData \in [Flushes -> Seq(1 .. MaxPackets)]
    BY DEF TypeOK
<1>s. /\ file \in Seq(Nat) /\ pcmData \in Seq(Nat) /\ Latest \in Nat /\ captured \in Nat
      /\ \A f \in Flushes : writeData[f] \in Seq(Nat)
    BY SequencesOfNaturals
<1>e. Rising(<<>>) /\ Below(<<>>, Latest) /\ Before(file, <<>>)
    BY <1>s, EmptyRises
<1> USE <1>t DEF OrderInv, Copied, InFlush, Stale, Go, Step, Note, reader, blocks
<1>1. CASE Stop
    BY <1>1 DEF Stop, Latest
<1>2. CASE Test
    BY <1>2 DEF Test, Latest
<1>3. CASE ReadNothing
    BY <1>3 DEF ReadNothing, Latest
<1>4. CASE Read
    <2>1. Latest' = Latest
        BY <1>4, <1>s DEF Read, Latest
    <2>2. /\ UNCHANGED <<pcmData, writeData, file, mishaps>> /\ pc = "read" /\ pc' = "append"
          /\ \A f \in Flushes : flush'[f] # flush[f] => flush[f] = "unborn" /\ flush'[f] = "copy"
        BY <1>4 DEF Read
    <2> QED
        BY <2>1, <2>2
<1>5. CASE AppendPacket
    <2>1. captured \in Nat /\ Latest = captured - 1 /\ Latest' = captured /\ Latest < captured
        BY <1>5, <1>s DEF AppendPacket, Latest
    <2>2. /\ pcmData' = Append(pcmData, captured)
          /\ UNCHANGED <<flush, writeData, file>> /\ pc = "append" /\ pc' = "test"
        BY <1>5 DEF AppendPacket
    <2>3. mishaps' \cap {"two_flushes", "end_in_flush"} = mishaps \cap {"two_flushes", "end_in_flush"}
        BY <1>5 DEF AppendPacket
    <2> SUFFICES ASSUME mishaps \cap {"two_flushes", "end_in_flush"} = {}
                 PROVE  OrderInv'
        BY <2>3
    <2>4. Rising(file) /\ Below(file, captured)
        BY <1>s, <2>1, Appended
    <2>5. Rising(pcmData') /\ Below(pcmData', captured)
        BY <1>s, <2>1, <2>2, Appended
    <2>6. Before(file, pcmData) => Before(file, pcmData')
        BY <1>s, <2>1, <2>2, Appended
    <2>7. \A f \in InFlush :
            Rising(writeData[f]) /\ Below(writeData[f], captured) /\ Before(file, writeData[f])
        BY <1>s, <2>1, Appended
    <2> QED
        BY <2>1, <2>2, <2>4, <2>5, <2>6, <2>7
<1>6. CASE OpenRest
    BY <1>6 DEF OpenRest, Latest
<1>7. CASE WriteRest
    <2> SUFFICES ASSUME mishaps' \cap {"two_flushes", "end_in_flush"} = {}
                 PROVE  OrderInv'
        OBVIOUS
    <2>1. Copied = {} /\ mishaps' = mishaps
        BY <1>7 DEF WriteRest
    <2>2. /\ pc = "append_rest" /\ pc' = "empty" /\ file' = file \o pcmData
          /\ UNCHANGED <<captured, pcmData, flush, writeData>>
        BY <1>7 DEF WriteRest
    <2>3. Rising(file') /\ Below(file', Latest)
        BY <1>s, <2>1, <2>2, Concatenated
    <2>4. Latest' = Latest
        BY <2>2 DEF Latest
    <2> QED
        BY <2>1, <2>2, <2>3, <2>4
<1>8. CASE Finish
    BY <1>8, <1>e DEF Finish, Latest
<1>9. ASSUME NEW f \in Flushes, Copy(f) PROVE OrderInv'
    <2> SUFFICES ASSUME mishaps' \cap {"two_flushes", "end_in_flush"} = {}
                 PROVE  OrderInv'
        OBVIOUS
    <2>1. Copied = {} /\ pc # "empty" /\ mishaps' = mishaps
        BY <1>9 DEF Copy
    <2>2. /\ writeData' = [writeData EXCEPT ![f] = pcmData] /\ flush' = [flush EXCEPT ![f] = "look"]
          /\ UNCHANGED <<pc, captured, pcmData, file>>
        BY <1>9 DEF Copy
    <2>3. Latest' = Latest
        BY <2>2 DEF Latest
    <2>4. ~Stale /\ ~Stale'
        BY <2>1, <2>2
    <2>5. Copied' = {f} /\ InFlush' = {f}
        BY <2>1, <2>2
    <2> QED
        BY <2>1, <2>2, <2>3, <2>4, <2>5
<1>10. ASSUME NEW f \in Flushes, LookForFile(f) PROVE OrderInv'
    BY <1>10 DEF LookForFile, Latest
<1>11. ASSUME NEW f \in Flushes, CreateFile(f) PROVE OrderInv'
    <2>1. /\ file' = writeData[f] /\ flush' = [flush EXCEPT ![f] = "empty"] /\ flush[f] = "create"
          /\ UNCHANGED <<pc, captured, pcmData, writeData, mishaps>>
        BY <1>11 DEF CreateFile
    <2>2. Latest' = Latest
        BY <2>1 DEF Latest
    <2> QED
        BY <2>1, <2>2
<1>12. ASSUME NEW f \in Flushes, ExtendFile(f) PROVE OrderInv'
    <2>1. /\ file' = file \o writeData[f] /\ flush' = [flush EXCEPT ![f] = "empty"]
          /\ flush[f] = "extend" /\ UNCHANGED <<pc, captured, pcmData, writeData, mishaps>>
        BY <1>12 DEF ExtendFile
    <2>2. Latest' = Latest
        BY <2>1 DEF Latest
    <2>3. \/ mishaps \cap {"two_flushes", "end_in_flush"} # {}
          \/ Rising(file') /\ Below(file', Latest)
        BY <1>s, <2>1, Concatenated
    <2> QED
        BY <2>1, <2>2, <2>3
<1>13. ASSUME NEW f \in Flushes, Empty(f) PROVE OrderInv'
    BY <1>13, <1>e DEF Empty, Latest
<1>14. CASE UNCHANGED vars
    BY <1>14 DEF vars, Latest
<1> QED
    BY <1>1, <1>2, <1>3, <1>4, <1>5, <1>6, <1>7, <1>8, <1>9, <1>10, <1>11, <1>12, <1>13, <1>14
       DEF Next, Reader, Flush

LEMMA StepComplete == TypeOK /\ CountInv /\ CompleteInv /\ [Next]_vars => CompleteInv'
<1> SUFFICES ASSUME TypeOK, CountInv, CompleteInv, [Next]_vars
             PROVE  CompleteInv'
    OBVIOUS
<1>t. /\ pc \in {"test", "read", "append", "write", "append_rest", "empty", "done"}
      /\ flush \in [Flushes -> {"unborn", "copy", "look", "create", "extend", "empty", "done"}]
      /\ writeData \in [Flushes -> Seq(1 .. MaxPackets)] /\ exists \in BOOLEAN
    BY DEF TypeOK
<1>s. /\ file \in Seq(Nat) /\ pcmData \in Seq(Nat) /\ Latest \in Nat /\ captured \in Nat
    BY SequencesOfNaturals
<1>e. file \o <<>> = file /\ <<>> \o pcmData = pcmData
    BY <1>s, AppendedLast
<1> USE <1>t DEF CompleteInv, Copied, InFlush, Stale, Go, Step, Note, reader, blocks
<1>1. CASE Stop
    BY <1>1 DEF Stop, Latest
<1>2. CASE Test
    BY <1>2 DEF Test, Latest
<1>3. CASE ReadNothing
    BY <1>3 DEF ReadNothing, Latest
<1>4. CASE Read
    <2>1. Latest' = Latest
        BY <1>4, <1>s DEF Read, Latest
    <2>2. /\ UNCHANGED <<pcmData, writeData, exists, file, mishaps>> /\ pc = "read" /\ pc' = "append"
          /\ \A f \in Flushes : flush'[f] # flush[f] => flush[f] = "unborn" /\ flush'[f] = "copy"
        BY <1>4 DEF Read
    <2> QED
        BY <2>1, <2>2
<1>5. CASE AppendPacket
    <2> SUFFICES ASSUME mishaps' = {}
                 PROVE  CompleteInv'
        OBVIOUS
    <2>1. Copied = {} /\ mishaps = {}
        BY <1>5 DEF AppendPacket
    <2>2. Latest = captured - 1 /\ Latest' = captured /\ Latest + 1 = captured
        BY <1>5, <1>s DEF AppendPacket, Latest
    <2>3. /\ pcmData' = Append(pcmData, captured)
          /\ UNCHANGED <<flush, writeData, file, exists>> /\ pc = "append" /\ pc' = "test"
        BY <1>5 DEF AppendPacket
    <2>4. ~Stale /\ file \o pcmData = Upto(Latest)
        BY <2>1, <2>3
    <2>5. file \o pcmData' = Upto(captured)
        <3>1. Append(Upto(Latest), Latest + 1) = Upto(Latest + 1)
            BY <1>s, UptoGrows
        <3>2. file \o Append(pcmData, captured) = Append(file \o pcmData, captured)
            BY <1>s, AppendedLast
        <3> QED
            BY <2>2, <2>3, <2>4, <3>1, <3>2
    <2> QED
        BY <2>1, <2>2, <2>3, <2>4, <2>5
<1>6. CASE OpenRest
    <2> SUFFICES ASSUME mishaps' = {}
                 PROVE  CompleteInv'
        OBVIOUS
    <2>1. Latest' = Latest
        BY <1>6 DEF OpenRest, Latest
    <2>2. mishaps = {} /\ (exists \/ pcmData = <<>>)
        BY <1>6 DEF OpenRest
    <2> QED
        BY <1>6, <1>e, <2>1, <2>2 DEF OpenRest
<1>7. CASE WriteRest
    <2> SUFFICES ASSUME mishaps' = {}
                 PROVE  CompleteInv'
        OBVIOUS
    <2>1. Copied = {} /\ mishaps = {}
        BY <1>7 DEF WriteRest
    <2>2. /\ pc = "append_rest" /\ pc' = "empty" /\ file' = file \o pcmData
          /\ UNCHANGED <<captured, pcmData, flush, writeData, exists>>
        BY <1>7 DEF WriteRest
    <2>3. Latest' = Latest
        BY <2>2 DEF Latest
    <2> QED
        BY <2>1, <2>2, <2>3
<1>8. CASE Finish
    <2>1. Latest' = Latest
        BY <1>8 DEF Finish, Latest
    <2> QED
        BY <1>8, <1>e, <2>1 DEF Finish
<1>9. ASSUME NEW f \in Flushes, Copy(f) PROVE CompleteInv'
    <2> SUFFICES ASSUME mishaps' = {}
                 PROVE  CompleteInv'
        OBVIOUS
    <2>1. Copied = {} /\ pc # "empty" /\ mishaps = {}
        BY <1>9 DEF Copy
    <2>2. /\ writeData' = [writeData EXCEPT ![f] = pcmData] /\ flush' = [flush EXCEPT ![f] = "look"]
          /\ UNCHANGED <<pc, captured, pcmData, file, exists>>
        BY <1>9 DEF Copy
    <2>3. Latest' = Latest
        BY <2>2 DEF Latest
    <2>4. ~Stale /\ ~Stale'
        BY <2>1, <2>2
    <2>5. Copied' = {f} /\ InFlush' = {f}
        BY <2>1, <2>2
    <2> QED
        BY <2>1, <2>2, <2>3, <2>4, <2>5
<1>10. ASSUME NEW f \in Flushes, LookForFile(f) PROVE CompleteInv'
    BY <1>10 DEF LookForFile, Latest
<1>11. ASSUME NEW f \in Flushes, CreateFile(f) PROVE CompleteInv'
    <2> SUFFICES ASSUME mishaps = {}
                 PROVE  CompleteInv'
        BY <1>11 DEF CreateFile
    <2>1. /\ file' = writeData[f] /\ flush' = [flush EXCEPT ![f] = "empty"] /\ flush[f] = "create"
          /\ exists' = TRUE /\ UNCHANGED <<pc, captured, pcmData, writeData, mishaps>>
        BY <1>11 DEF CreateFile
    <2>2. Latest' = Latest
        BY <2>1 DEF Latest
    <2>3. file = <<>> /\ writeData[f] = pcmData /\ f \in Copied
        BY <2>1
    <2>4. pcmData = Upto(Latest)
        BY <1>e, <2>1, <2>3
    <2> QED
        BY <2>1, <2>2, <2>3, <2>4
<1>12. ASSUME NEW f \in Flushes, ExtendFile(f) PROVE CompleteInv'
    <2>1. /\ file' = file \o writeData[f] /\ flush' = [flush EXCEPT ![f] = "empty"]
          /\ flush[f] = "extend" /\ UNCHANGED <<pc, captured, pcmData, writeData, exists, mishaps>>
        BY <1>12 DEF ExtendFile
    <2>2. Latest' = Latest
        BY <2>1 DEF Latest
    <2> SUFFICES ASSUME mishaps = {}
                 PROVE  CompleteInv'
        BY <2>1
    <2>3. f \in Copied /\ f \in InFlush /\ writeData[f] = pcmData /\ exists
        BY <2>1
    <2>4. \A g \in Flushes : flush[g] # "empty"
        BY <2>3
    <2>5. file' = Upto(Latest)
        <3>1. CASE pc = "empty"
            BY <1>e, <2>1, <2>3, <3>1
        <3>2. CASE pc # "empty"
            BY <2>1, <2>3, <2>4, <3>2
        <3> QED
            BY <3>1, <3>2
    <2> QED
        BY <2>1, <2>2, <2>3, <2>5
<1>13. ASSUME NEW f \in Flushes, Empty(f) PROVE CompleteInv'
    BY <1>13, <1>e DEF Empty, Latest
<1>14. CASE UNCHANGED vars
    BY <1>14 DEF vars, Latest
<1> QED
    BY <1>1, <1>2, <1>3, <1>4, <1>5, <1>6, <1>7, <1>8, <1>9, <1>10, <1>11, <1>12, <1>13, <1>14
       DEF Next, Reader, Flush

-----------------------------------------------------------------------------
(***************************************************************************)
(* The theorems.                                                           *)
(***************************************************************************)
LEMMA InitOrder == Init => OrderInv /\ CompleteInv
<1> SUFFICES ASSUME Init
             PROVE  OrderInv /\ CompleteInv
    OBVIOUS
<1>1. <<>> \in Seq(Nat) /\ <<>> \o <<>> = <<>> /\ Upto(0) = <<>>
    BY DEF Upto
<1>2. Rising(<<>>) /\ Below(<<>>, 0) /\ Before(<<>>, <<>>)
    BY <1>1, EmptyRises
<1>3. Latest = 0 /\ Copied = {} /\ InFlush = {} /\ ~Stale
    BY DEF Init, Latest, Copied, InFlush, Stale
<1> QED
    BY <1>1, <1>2, <1>3 DEF Init, OrderInv, CompleteInv

\* Every variable keeps its type; what is buffered, copied and written are packets.
THEOREM TypeCorrect == Spec => []TypeOK
<1> QED
    BY InitType, StepType, PTL DEF Spec

\* No packet is written twice, unless two writers had the same data in hand.
THEOREM NothingIsTwice == Spec => []NothingTwice
<1>1. TypeOK /\ CountInv /\ OrderInv /\ [Next]_vars => (TypeOK /\ CountInv /\ OrderInv)'
    BY StepType, StepOrder
<1>2. ASSUME TypeOK, CountInv, OrderInv PROVE NothingTwice
    <2> SUFFICES ASSUME mishaps \cap {"two_flushes", "end_in_flush"} = {}
                 PROVE  IsInjective(file)
        BY DEF NothingTwice
    <2>1. Rising(file)
        BY <1>2 DEF OrderInv
    <2>2. file \in Seq(Nat)
        BY <1>2, SequencesOfNaturals
    <2>3. ASSUME NEW a \in 1 .. Len(file), NEW b \in 1 .. Len(file), file[a] = file[b] PROVE a = b
        <3>1. file[a] \in Nat /\ file[b] \in Nat
            BY <2>2
        <3> QED
            BY <2>1, <2>3, <3>1 DEF Rising
    <2> QED
        BY <2>2, <2>3 DEF IsInjective
<1> QED
    BY <1>1, <1>2, InitType, InitOrder, PTL DEF Spec

\* A recording that is over is in the file from its first packet to its last, unless one of
\* the races has happened.
THEOREM NothingIsMissing == Spec => []NothingMissing
<1>1. TypeOK /\ CountInv /\ CompleteInv /\ [Next]_vars => (TypeOK /\ CountInv /\ CompleteInv)'
    BY StepType, StepComplete
<1>2. ASSUME TypeOK, CountInv, CompleteInv PROVE NothingMissing
    <2> SUFFICES ASSUME mishaps = {}, pc = "done", \A f \in Flushes : flush[f] \in {"unborn", "done"}
                 PROVE  file = Upto(captured)
        BY DEF NothingMissing
    <2>1. ~Stale /\ pcmData = <<>> /\ Latest = captured
        BY <1>2 DEF CompleteInv, Stale, Latest
    <2>2. file \o pcmData = Upto(captured)
        BY <1>2, <2>1 DEF CompleteInv
    <2>3. file \o <<>> = file
        BY <1>2, SequencesOfNaturals, AppendedLast
    <2> QED
        BY <2>1, <2>2, <2>3
<1> QED
    BY <1>1, <1>2, InitType, InitOrder, PTL DEF Spec

=============================================================================
