-------------------------- MODULE PcmPlaybackProofs --------------------------
(***************************************************************************)
(* For any number of sessions of both kinds and any length of the file:    *)
(* the callback touches nothing that has gone, a file that nobody stops is *)
(* mixed from its first to its last chunk, and a stop is heeded, with the  *)
(* exceptions PcmPlayback names.                                           *)
(***************************************************************************)
EXTENDS PcmPlayback, TLAPS

USE SessionsAssumption
USE DEF Session

-----------------------------------------------------------------------------
(***************************************************************************)
(* Types.                                                                  *)
(***************************************************************************)
LEMMA InitType == Init => TypeOK
<1> SUFFICES ASSUME Init
             PROVE  TypeOK
    OBVIOUS
<1>1. /\ selected \in BOOLEAN /\ requested \in [{"wav", "pcm"} -> BOOLEAN]
      /\ device \in Session \cup {None} /\ running \in BOOLEAN
      /\ cb \in {"off", "mix", "data", "len"} /\ (cb # "off" => device # None)
    BY DEF Init
<1>2. pc \in [Session -> Point]
    BY DEF Init, Point
<1>3. /\ len \in [Session -> 0 .. Chunks] /\ data \in [Session -> 0 .. Chunks + 1]
      /\ loaded \in [Session -> BOOLEAN] /\ chunk \in [Session -> 0 .. Chunks]
    BY DEF Init
<1>4. mixed \in [Session -> Seq(0 .. Chunks)]
    BY DEF Init
<1>5. /\ stopping \subseteq Session /\ robbed \subseteq Session
      /\ mishaps \subseteq {"stop_forgotten", "pulled_early"}
    BY DEF Init
<1> QED
    BY <1>1, <1>2, <1>3, <1>4, <1>5 DEF TypeOK

\* The callback's device has a chunk to take.
LEMMA CallbackBuffer ==
    ASSUME TypeOK, ControlInv, BufferInv, cb # "off"
    PROVE  /\ device \in Session /\ len[device] \in 1 .. Chunks
           /\ cb # "len" => data[device] \in 0 .. Chunks
<1>1. device \in Session /\ len[device] \in 1 .. Chunks
    BY DEF TypeOK, ControlInv
<1>2. ASSUME device \in Players, cb # "len" PROVE data[device] \in 0 .. Chunks
    <2>1. Moved(device, {"len"}) = 0
        BY <1>2 DEF Moved
    <2>2. data[device] = Chunks + 1 - len[device]
        BY <1>1, <1>2, <2>1 DEF BufferInv
    <2> QED
        BY <1>1, <2>2
<1>3. ASSUME device \in Feeders PROVE data[device] \in 0 .. Chunks
    BY <1>3 DEF BufferInv, TypeOK
<1> QED
    BY <1>1, <1>2, <1>3

LEMMA StepType == TypeOK /\ ControlInv /\ BufferInv /\ [Next]_vars => TypeOK'
<1> SUFFICES ASSUME TypeOK, ControlInv, BufferInv, [Next]_vars
             PROVE  TypeOK'
    OBVIOUS
<1> USE DEF TypeOK, Goto, audio, buffer, aux, Note, Point, InLoop, Left
<1>1. ASSUME NEW s \in Session, PlayWav(s) PROVE TypeOK'
    BY <1>1 DEF PlayWav
<1>2. ASSUME NEW s \in Session, PlayPcm(s) PROVE TypeOK'
    BY <1>2 DEF PlayPcm
<1>3. ASSUME NEW s \in Session, Begin(s) PROVE TypeOK'
    BY <1>3 DEF Begin
<1>4. ASSUME NEW s \in Session, InitFails(s) PROVE TypeOK'
    BY <1>4 DEF InitFails
<1>5. ASSUME NEW s \in Session, LoadWav(s) PROVE TypeOK'
    BY <1>5 DEF LoadWav
<1>6. ASSUME NEW s \in Session, OpenAudio(s) PROVE TypeOK'
    BY <1>6 DEF OpenAudio
<1>7. ASSUME NEW s \in Session, OpenFails(s) PROVE TypeOK'
    BY <1>7 DEF OpenFails
<1>8. ASSUME NEW s \in Session, Unpause(s) PROVE TypeOK'
    BY <1>8 DEF Unpause
<1>9. ASSUME NEW s \in Session, LoopTest(s) PROVE TypeOK'
    BY <1>9 DEF LoopTest, After
<1>10. ASSUME NEW s \in Session, Look(s) PROVE TypeOK'
    BY <1>10 DEF Look
<1>11. ASSUME NEW s \in Session, Read(s) PROVE TypeOK'
    <2>1. 1 \in 0 .. Chunks /\ chunk[s] + 1 \in 0 .. Chunks
        BY <1>11 DEF Read
    <2>2. len' \in [Session -> 0 .. Chunks] /\ chunk' \in [Session -> 0 .. Chunks]
        BY <1>11, <2>1 DEF Read
    <2> QED
        BY <1>11, <2>2 DEF Read
<1>12. ASSUME NEW s \in Session, ReadEnd(s) PROVE TypeOK'
    BY <1>12 DEF ReadEnd
<1>13. ASSUME NEW s \in Session, SetData(s) PROVE TypeOK'
    BY <1>13 DEF SetData
<1>14. ASSUME NEW s \in Session, FreeWav(s) PROVE TypeOK'
    BY <1>14 DEF FreeWav
<1>15. ASSUME NEW s \in Session, CloseDevice(s) PROVE TypeOK'
    BY <1>15 DEF CloseDevice
<1>16. CASE StopWav
    BY <1>16 DEF StopWav, Alive
<1>17. CASE ToggleRecord
    BY <1>17 DEF ToggleRecord, Alive
<1>18. CASE Pull
    BY <1>18 DEF Pull
<1>19. CASE Mix
    <2>1. device \in Session /\ data[device] \in 0 .. Chunks
        BY <1>19, CallbackBuffer DEF Mix
    <2>2. mixed' \in [Session -> Seq(0 .. Chunks)]
        BY <1>19, <2>1 DEF Mix
    <2> QED
        BY <1>19, <2>2 DEF Mix
<1>20. CASE AdvanceData
    <2>1. device \in Session /\ data[device] \in 0 .. Chunks
        BY <1>20, CallbackBuffer DEF AdvanceData
    <2>2. data' \in [Session -> 0 .. Chunks + 1]
        BY <1>20, <2>1 DEF AdvanceData
    <2> QED
        BY <1>20, <2>2 DEF AdvanceData
<1>21. CASE AdvanceLen
    <2>1. device \in Session /\ len[device] \in 1 .. Chunks
        BY <1>21, CallbackBuffer DEF AdvanceLen
    <2>2. len' \in [Session -> 0 .. Chunks]
        BY <1>21, <2>1 DEF AdvanceLen
    <2> QED
        BY <1>21, <2>2 DEF AdvanceLen
<1>22. CASE UNCHANGED vars
    BY <1>22 DEF vars
<1> QED
    BY <1>1, <1>2, <1>3, <1>4, <1>5, <1>6, <1>7, <1>8, <1>9, <1>10, <1>11,
       <1>12, <1>13, <1>14, <1>15, <1>16, <1>17, <1>18, <1>19, <1>20, <1>21, <1>22
       DEF Next, Run, Callback

-----------------------------------------------------------------------------
(***************************************************************************)
(* Control, and what is in the buffers.                                    *)
(***************************************************************************)
LEMMA InitPlayback == Init => PlaybackInv
<1> SUFFICES ASSUME Init
             PROVE  PlaybackInv
    OBVIOUS
<1>1. ControlInv
    BY DEF Init, ControlInv
<1>2. BufferInv
    BY DEF Init, BufferInv, InLoop, Left
<1>3. StopInv
    BY DEF Init, StopInv, Going, InLoop, Left
<1>4. Upto(0) = <<>>
    BY DEF Upto
<1>5. MixedInv
    BY <1>4 DEF Init, MixedInv, Given, Moved
<1> QED
    BY <1>1, <1>2, <1>3, <1>5 DEF PlaybackInv

LEMMA StepControl == TypeOK /\ ControlInv /\ BufferInv /\ [Next]_vars => ControlInv'
<1> SUFFICES ASSUME TypeOK, ControlInv, BufferInv, [Next]_vars
             PROVE  ControlInv'
    OBVIOUS
<1>t. /\ pc \in [Session -> Point] /\ len \in [Session -> 0 .. Chunks]
      /\ device \in Session \cup {None} /\ (cb # "off" => device # None)
    BY DEF TypeOK
<1> USE <1>t DEF ControlInv, Goto, audio, buffer, aux, InLoop, Left
<1>1. ASSUME NEW s \in Session, PlayWav(s) PROVE ControlInv'
    BY <1>1 DEF PlayWav
<1>2. ASSUME NEW s \in Session, PlayPcm(s) PROVE ControlInv'
    BY <1>2 DEF PlayPcm
<1>3. ASSUME NEW s \in Session, Begin(s) PROVE ControlInv'
    BY <1>3 DEF Begin
<1>4. ASSUME NEW s \in Session, InitFails(s) PROVE ControlInv'
    BY <1>4 DEF InitFails
<1>5. ASSUME NEW s \in Session, LoadWav(s) PROVE ControlInv'
    BY <1>5 DEF LoadWav
<1>6. ASSUME NEW s \in Session, OpenAudio(s) PROVE ControlInv'
    BY <1>6 DEF OpenAudio
<1>7. ASSUME NEW s \in Session, OpenFails(s) PROVE ControlInv'
    BY <1>7 DEF OpenFails
<1>8. ASSUME NEW s \in Session, Unpause(s) PROVE ControlInv'
    BY <1>8 DEF Unpause
<1>9. ASSUME NEW s \in Session, LoopTest(s) PROVE ControlInv'
    BY <1>9 DEF LoopTest, After
<1>10. ASSUME NEW s \in Session, Look(s) PROVE ControlInv'
    BY <1>10 DEF Look
<1>11. ASSUME NEW s \in Session, Read(s) PROVE ControlInv'
    BY <1>11 DEF Read
<1>12. ASSUME NEW s \in Session, ReadEnd(s) PROVE ControlInv'
    BY <1>12 DEF ReadEnd, BufferInv
<1>13. ASSUME NEW s \in Session, SetData(s) PROVE ControlInv'
    BY <1>13 DEF SetData
<1>14. ASSUME NEW s \in Session, FreeWav(s) PROVE ControlInv'
    BY <1>14 DEF FreeWav
<1>15. ASSUME NEW s \in Session, CloseDevice(s) PROVE ControlInv'
    BY <1>15 DEF CloseDevice
<1>16. CASE StopWav
    BY <1>16 DEF StopWav
<1>17. CASE ToggleRecord
    BY <1>17 DEF ToggleRecord
<1>18. CASE Pull
    BY <1>18 DEF Pull
<1>19. CASE Mix
    BY <1>19 DEF Mix
<1>20. CASE AdvanceData
    BY <1>20 DEF AdvanceData
<1>21. CASE AdvanceLen
    BY <1>21 DEF AdvanceLen
<1>22. CASE UNCHANGED vars
    BY <1>22 DEF vars
<1> QED
    BY <1>1, <1>2, <1>3, <1>4, <1>5, <1>6, <1>7, <1>8, <1>9, <1>10, <1>11,
       <1>12, <1>13, <1>14, <1>15, <1>16, <1>17, <1>18, <1>19, <1>20, <1>21, <1>22
       DEF Next, Run, Callback

LEMMA StepBuffer == TypeOK /\ ControlInv /\ BufferInv /\ [Next]_vars => BufferInv'
<1> SUFFICES ASSUME TypeOK, ControlInv, BufferInv, [Next]_vars
             PROVE  BufferInv'
    OBVIOUS
<1>t. /\ pc \in [Session -> Point] /\ len \in [Session -> 0 .. Chunks]
      /\ data \in [Session -> 0 .. Chunks + 1] /\ chunk \in [Session -> 0 .. Chunks]
      /\ loaded \in [Session -> BOOLEAN]
      /\ device \in Session \cup {None} /\ (cb # "off" => device # None)
    BY DEF TypeOK
<1> USE <1>t DEF BufferInv, Moved, Goto, audio, buffer, aux, InLoop, Left
<1>1. ASSUME NEW s \in Session, PlayWav(s) PROVE BufferInv'
    BY <1>1 DEF PlayWav, ControlInv
<1>2. ASSUME NEW s \in Session, PlayPcm(s) PROVE BufferInv'
    BY <1>2 DEF PlayPcm, ControlInv
<1>3. ASSUME NEW s \in Session, Begin(s) PROVE BufferInv'
    BY <1>3 DEF Begin, ControlInv
<1>4. ASSUME NEW s \in Session, InitFails(s) PROVE BufferInv'
    BY <1>4 DEF InitFails, ControlInv
<1>5. ASSUME NEW s \in Session, LoadWav(s) PROVE BufferInv'
    BY <1>5 DEF LoadWav, ControlInv
<1>6. ASSUME NEW s \in Session, OpenAudio(s) PROVE BufferInv'
    BY <1>6 DEF OpenAudio, ControlInv
<1>7. ASSUME NEW s \in Session, OpenFails(s) PROVE BufferInv'
    BY <1>7 DEF OpenFails, ControlInv
<1>8. ASSUME NEW s \in Session, Unpause(s) PROVE BufferInv'
    BY <1>8 DEF Unpause, ControlInv
<1>9. ASSUME NEW s \in Session, LoopTest(s) PROVE BufferInv'
    BY <1>9 DEF LoopTest, After
<1>10. ASSUME NEW s \in Session, Look(s) PROVE BufferInv'
    BY <1>10 DEF Look, ControlInv
<1>11. ASSUME NEW s \in Session, Read(s) PROVE BufferInv'
    BY <1>11 DEF Read, ControlInv
<1>12. ASSUME NEW s \in Session, ReadEnd(s) PROVE BufferInv'
    BY <1>12 DEF ReadEnd, ControlInv
<1>13. ASSUME NEW s \in Session, SetData(s) PROVE BufferInv'
    BY <1>13 DEF SetData, ControlInv
<1>14. ASSUME NEW s \in Session, FreeWav(s) PROVE BufferInv'
    BY <1>14 DEF FreeWav, ControlInv
<1>15. ASSUME NEW s \in Session, CloseDevice(s) PROVE BufferInv'
    BY <1>15 DEF CloseDevice, ControlInv
<1>16. CASE StopWav
    BY <1>16 DEF StopWav, ControlInv
<1>17. CASE ToggleRecord
    BY <1>17 DEF ToggleRecord, ControlInv
<1>18. CASE Pull
    BY <1>18 DEF Pull, ControlInv
<1>19. CASE Mix
    BY <1>19 DEF Mix, ControlInv
<1>20. CASE AdvanceData
    BY <1>20 DEF AdvanceData, ControlInv
<1>21. CASE AdvanceLen
    BY <1>21 DEF AdvanceLen, ControlInv
<1>22. CASE UNCHANGED vars
    BY <1>22 DEF vars, ControlInv
<1> QED
    BY <1>1, <1>2, <1>3, <1>4, <1>5, <1>6, <1>7, <1>8, <1>9, <1>10, <1>11,
       <1>12, <1>13, <1>14, <1>15, <1>16, <1>17, <1>18, <1>19, <1>20, <1>21, <1>22
       DEF Next, Run, Callback

-----------------------------------------------------------------------------
(***************************************************************************)
(* Stops.                                                                  *)
(***************************************************************************)
LEMMA StepStop == TypeOK /\ ControlInv /\ BufferInv /\ StopInv /\ [Next]_vars => StopInv'
<1> SUFFICES ASSUME TypeOK, ControlInv, BufferInv, StopInv, [Next]_vars
             PROVE  StopInv'
    OBVIOUS
<1>t. /\ pc \in [Session -> Point] /\ len \in [Session -> 0 .. Chunks]
      /\ chunk \in [Session -> 0 .. Chunks] /\ device \in Session \cup {None}
      /\ requested \in [{"wav", "pcm"} -> BOOLEAN] /\ stopping \subseteq Session
    BY DEF TypeOK
<1> USE <1>t DEF StopInv, Class, Going, Goto, audio, buffer, aux, InLoop, Left
<1>1. ASSUME NEW s \in Session, PlayWav(s) PROVE StopInv'
    BY <1>1 DEF PlayWav
<1>2. ASSUME NEW s \in Session, PlayPcm(s) PROVE StopInv'
    BY <1>2, SessionsAssumption DEF PlayPcm, ControlInv
<1>3. ASSUME NEW s \in Session, Begin(s) PROVE StopInv'
    BY <1>3 DEF Begin, Note, Alive, ControlInv
<1>4. ASSUME NEW s \in Session, InitFails(s) PROVE StopInv'
    BY <1>4 DEF InitFails
<1>5. ASSUME NEW s \in Session, LoadWav(s) PROVE StopInv'
    BY <1>5 DEF LoadWav, ControlInv
<1>6. ASSUME NEW s \in Session, OpenAudio(s) PROVE StopInv'
    BY <1>6 DEF OpenAudio
<1>7. ASSUME NEW s \in Session, OpenFails(s) PROVE StopInv'
    BY <1>7 DEF OpenFails
<1>8. ASSUME NEW s \in Session, Unpause(s) PROVE StopInv'
    BY <1>8 DEF Unpause
<1>9. ASSUME NEW s \in Session, LoopTest(s) PROVE StopInv'
    BY <1>9 DEF LoopTest, After
<1>10. ASSUME NEW s \in Session, Look(s) PROVE StopInv'
    BY <1>10 DEF Look
<1>11. ASSUME NEW s \in Session, Read(s) PROVE StopInv'
    BY <1>11 DEF Read, ControlInv
<1>12. ASSUME NEW s \in Session, ReadEnd(s) PROVE StopInv'
    BY <1>12 DEF ReadEnd
<1>13. ASSUME NEW s \in Session, SetData(s) PROVE StopInv'
    BY <1>13 DEF SetData
<1>14. ASSUME NEW s \in Session, FreeWav(s) PROVE StopInv'
    BY <1>14 DEF FreeWav
<1>15. ASSUME NEW s \in Session, CloseDevice(s) PROVE StopInv'
    BY <1>15 DEF CloseDevice, Note
<1>16. CASE StopWav
    BY <1>16 DEF StopWav, Alive
<1>17. CASE ToggleRecord
    BY <1>17 DEF ToggleRecord, Note, Alive
<1>18. CASE Pull
    BY <1>18 DEF Pull, Note
<1>19. CASE Mix
    BY <1>19 DEF Mix
<1>20. CASE AdvanceData
    BY <1>20 DEF AdvanceData
<1>21. CASE AdvanceLen
    BY <1>21, CallbackBuffer DEF AdvanceLen
<1>22. CASE UNCHANGED vars
    BY <1>22 DEF vars
<1> QED
    BY <1>1, <1>2, <1>3, <1>4, <1>5, <1>6, <1>7, <1>8, <1>9, <1>10, <1>11,
       <1>12, <1>13, <1>14, <1>15, <1>16, <1>17, <1>18, <1>19, <1>20, <1>21, <1>22
       DEF Next, Run, Callback

-----------------------------------------------------------------------------
(***************************************************************************)
(* What has been mixed.                                                    *)
(***************************************************************************)
LEMMA UptoGrows ==
    ASSUME NEW n \in Nat
    PROVE  Append(Upto(n), n + 1) = Upto(n + 1)
<1>1. Upto(n) \in Seq(Nat) /\ Len(Upto(n)) = n
    BY DEF Upto
<1>2. Upto(n + 1) \in Seq(Nat) /\ Len(Upto(n + 1)) = n + 1
    BY DEF Upto
<1>3. ASSUME NEW i \in 1 .. n + 1 PROVE Append(Upto(n), n + 1)[i] = Upto(n + 1)[i]
    BY <1>1, <1>3 DEF Upto
<1> QED
    BY <1>1, <1>2, <1>3

LEMMA StepMixed == TypeOK /\ ControlInv /\ BufferInv /\ MixedInv /\ [Next]_vars => MixedInv'
<1> SUFFICES ASSUME TypeOK, ControlInv, BufferInv, MixedInv, [Next]_vars
             PROVE  MixedInv'
    OBVIOUS
<1>t. /\ pc \in [Session -> Point] /\ len \in [Session -> 0 .. Chunks]
      /\ data \in [Session -> 0 .. Chunks + 1] /\ chunk \in [Session -> 0 .. Chunks]
      /\ mixed \in [Session -> Seq(0 .. Chunks)]
      /\ device \in Session \cup {None} /\ (cb # "off" => device # None)
    BY DEF TypeOK
<1> USE <1>t DEF MixedInv, Given, Moved, Goto, audio, buffer, aux
<1>1. ASSUME NEW s \in Session, PlayWav(s) PROVE MixedInv'
    BY <1>1 DEF PlayWav
<1>2. ASSUME NEW s \in Session, PlayPcm(s) PROVE MixedInv'
    BY <1>2 DEF PlayPcm
<1>3. ASSUME NEW s \in Session, Begin(s) PROVE MixedInv'
    BY <1>3 DEF Begin, Note
<1>4. ASSUME NEW s \in Session, InitFails(s) PROVE MixedInv'
    BY <1>4 DEF InitFails
<1>5. ASSUME NEW s \in Session, LoadWav(s) PROVE MixedInv'
    BY <1>5 DEF LoadWav, ControlInv, BufferInv
<1>6. ASSUME NEW s \in Session, OpenAudio(s) PROVE MixedInv'
    BY <1>6 DEF OpenAudio, ControlInv, BufferInv
<1>7. ASSUME NEW s \in Session, OpenFails(s) PROVE MixedInv'
    BY <1>7 DEF OpenFails
<1>8. ASSUME NEW s \in Session, Unpause(s) PROVE MixedInv'
    BY <1>8 DEF Unpause
<1>9. ASSUME NEW s \in Session, LoopTest(s) PROVE MixedInv'
    BY <1>9 DEF LoopTest, After
<1>10. ASSUME NEW s \in Session, Look(s) PROVE MixedInv'
    BY <1>10 DEF Look
<1>11. ASSUME NEW s \in Session, Read(s) PROVE MixedInv'
    BY <1>11 DEF Read, ControlInv, BufferInv
<1>12. ASSUME NEW s \in Session, ReadEnd(s) PROVE MixedInv'
    BY <1>12 DEF ReadEnd, ControlInv, BufferInv
<1>13. ASSUME NEW s \in Session, SetData(s) PROVE MixedInv'
    BY <1>13 DEF SetData, ControlInv, BufferInv
<1>14. ASSUME NEW s \in Session, FreeWav(s) PROVE MixedInv'
    BY <1>14 DEF FreeWav
<1>15. ASSUME NEW s \in Session, CloseDevice(s) PROVE MixedInv'
    BY <1>15 DEF CloseDevice, Note, ControlInv
<1>16. CASE StopWav
    BY <1>16 DEF StopWav
<1>17. CASE ToggleRecord
    BY <1>17 DEF ToggleRecord, Note
<1>18. CASE Pull
    BY <1>18 DEF Pull, Note, BufferInv
<1>19. CASE Mix
    <2>1. device \in Session /\ len[device] \in 1 .. Chunks
        BY <1>19, CallbackBuffer DEF Mix
    <2>2. /\ \A s \in Session \ {device} : mixed'[s] = mixed[s]
          /\ mixed'[device] = Append(mixed[device], data[device])
        BY <1>19, <2>1 DEF Mix
    <2>3. ASSUME device \in Players
          PROVE  mixed'[device] = Upto(Given(device) - len[device] + 1)
        <3>1. data[device] = Given(device) - len[device] + 1
            BY <1>19, <2>1, <2>3 DEF Mix, BufferInv
        <3>2. mixed[device] = Upto(Given(device) - len[device])
            BY <1>19, <2>1, <2>3 DEF Mix
        <3>3. Given(device) - len[device] \in Nat
            BY <1>19, <2>1, <2>3 DEF Mix, BufferInv
        <3> QED
            BY <2>2, <3>1, <3>2, <3>3, UptoGrows
    <2>4. ASSUME device \in Feeders, "pulled_early" \notin mishaps
          PROVE  mixed'[device] = Upto(Given(device) - len[device] + 1)
        <3>1. len[device] = 1 /\ pc[device] # "set"
            BY <1>19, <2>1, <2>4 DEF Mix, BufferInv
        <3>2. data[device] = Given(device) - len[device] + 1
            BY <1>19, <2>1, <2>4, <3>1 DEF Mix
        <3>3. mixed[device] = Upto(Given(device) - len[device])
            BY <1>19, <2>1, <2>4 DEF Mix
        <3>4. Given(device) - len[device] \in Nat
            BY <1>19, <2>1, <2>4 DEF Mix, BufferInv
        <3> QED
            BY <2>2, <3>2, <3>3, <3>4, UptoGrows
    <2> QED
        BY <1>19, <2>1, <2>2, <2>3, <2>4 DEF Mix
<1>20. CASE AdvanceData
    <2>1. device \in Session /\ len[device] \in 1 .. Chunks /\ data[device] \in 0 .. Chunks
        BY <1>20, CallbackBuffer DEF AdvanceData
    <2>2. \A s \in Session \ {device} : data'[s] = data[s]
        BY <1>20 DEF AdvanceData
    <2>3. device \in Players => data[device] # 0 /\ data'[device] # 0
        BY <1>20, <2>1 DEF AdvanceData, BufferInv
    <2>4. \A s \in Session : Given(s)' = Given(s)
        BY <1>20, <2>2, <2>3 DEF AdvanceData
    <2>5. \A s \in Session :
            /\ Moved(s, {"data", "len"})' = Moved(s, {"data", "len"})
            /\ Moved(s, {"len"}) = 0 /\ (s # device => Moved(s, {"len"})' = 0)
            /\ (s = device => Moved(s, {"len"})' = 1)
        BY <1>20 DEF AdvanceData
    <2> QED
        BY <1>20, <2>1, <2>2, <2>4, <2>5 DEF AdvanceData, BufferInv
<1>21. CASE AdvanceLen
    BY <1>21, CallbackBuffer DEF AdvanceLen, BufferInv
<1>22. CASE UNCHANGED vars
    BY <1>22 DEF vars
<1> QED
    BY <1>1, <1>2, <1>3, <1>4, <1>5, <1>6, <1>7, <1>8, <1>9, <1>10, <1>11,
       <1>12, <1>13, <1>14, <1>15, <1>16, <1>17, <1>18, <1>19, <1>20, <1>21, <1>22
       DEF Next, Run, Callback

-----------------------------------------------------------------------------
(***************************************************************************)
(* The theorems.                                                           *)
(***************************************************************************)
\* Every variable keeps its type, whatever the order of buttons, blocks and callbacks.
THEOREM TypeCorrect == Spec => []TypeOK
<1>1. Init => TypeOK /\ ControlInv /\ BufferInv
    BY InitType, InitPlayback DEF PlaybackInv
<1>2. TypeOK /\ ControlInv /\ BufferInv /\ [Next]_vars => (TypeOK /\ ControlInv /\ BufferInv)'
    BY StepType, StepControl, StepBuffer
<1> QED
    BY <1>1, <1>2, PTL DEF Spec

LEMMA Playback == Spec => [](TypeOK /\ PlaybackInv)
<1>1. Init => TypeOK /\ PlaybackInv
    BY InitType, InitPlayback
<1>2. TypeOK /\ PlaybackInv /\ [Next]_vars => (TypeOK /\ PlaybackInv)'
    BY StepType, StepControl, StepBuffer, StepStop, StepMixed DEF PlaybackInv
<1> QED
    BY <1>1, <1>2, PTL DEF Spec

\* The callback mixes from freed WAV data only in a session that a stop was meant for.
THEOREM WavDataLives == Spec => []DataLive
<1>1. TypeOK /\ PlaybackInv => DataLive
    BY DEF TypeOK, PlaybackInv, ControlInv, BufferInv, StopInv, DataLive, InLoop, Left
<1> QED
    BY <1>1, Playback, PTL

\* The callback is never in the buffer of a block that has returned.
THEOREM BuffersLive == Spec => []BufferLive
<1>1. TypeOK /\ PlaybackInv => BufferLive
    BY DEF PlaybackInv, ControlInv, BufferLive, InLoop, Left
<1> QED
    BY <1>1, Playback, PTL

\* Who leaves the loop without having been stopped has had the whole file mixed in order.
THEOREM WholeFile == Spec => []WholeFilePlayed
<1>1. ASSUME TypeOK, PlaybackInv, NEW s \in Session, pc[s] \in {"free", "close"},
             s \notin stopping, ~(s \in Feeders /\ "pulled_early" \in mishaps)
      PROVE  mixed[s] = Upto(Chunks)
    <2>1. len[s] = 0 /\ (s \in Feeders => chunk[s] = Chunks)
        BY <1>1 DEF PlaybackInv, StopInv, Left
    <2>2. Moved(s, {"data", "len"}) = 0
        BY <1>1, <2>1 DEF PlaybackInv, ControlInv, Moved
    <2>3. Given(s) = Chunks
        BY <1>1, <2>1 DEF PlaybackInv, BufferInv, Given, Left
    <2>4. mixed[s] = Upto(Given(s) - len[s] + Moved(s, {"data", "len"}))
        BY <1>1 DEF PlaybackInv, MixedInv
    <2> QED
        BY <2>1, <2>2, <2>3, <2>4
<1>2. TypeOK /\ PlaybackInv => WholeFilePlayed
    BY <1>1 DEF WholeFilePlayed
<1> QED
    BY <1>2, Playback, PTL

\* After a stop no loop takes a further turn, unless the flag has been reset behind it.
THEOREM StopsTake == Spec => StopTakes
<1>1. ASSUME TypeOK, PlaybackInv, [Next]_vars,
             NEW s \in stopping, pc[s] = "loop", pc'[s] = "look"
      PROVE  "stop_forgotten" \in mishaps
    <2>1. s \in Session
        BY <1>1 DEF TypeOK
    <2>2. ASSUME NEW t \in Session, Run(t) \/ CloseDevice(t) \/ PlayWav(t) \/ PlayPcm(t)
          PROVE  t = s /\ LoopTest(t)
        BY <1>1, <2>1, <2>2 DEF TypeOK, Run, CloseDevice, PlayWav, PlayPcm, Goto, Begin, InitFails,
            LoadWav, OpenAudio, OpenFails, Unpause, LoopTest, Look, Read, ReadEnd, SetData, FreeWav
    <2>3. LoopTest(s)
        BY <1>1, <2>2 DEF Next, vars, Callback, StopWav, ToggleRecord, Pull, Mix, AdvanceData, AdvanceLen
    <2>4. ~requested[Class(s)]
        BY <1>1, <2>1, <2>3 DEF LoopTest, Goto, After, TypeOK
    <2> QED
        BY <1>1, <2>4 DEF PlaybackInv, StopInv, Going, InLoop
<1>2. TypeOK /\ PlaybackInv /\ [Next]_vars
          => [\A s \in stopping : pc[s] = "loop" /\ pc'[s] = "look" => "stop_forgotten" \in mishaps]_vars
    BY <1>1
<1> QED
    BY <1>2, Playback, PTL DEF Spec, StopTakes

-----------------------------------------------------------------------------
(***************************************************************************)
(* The device.                                                             *)
(***************************************************************************)
LEMMA StepDevice == TypeOK /\ ControlInv /\ DeviceIsOwn /\ [Next]_vars => DeviceIsOwn'
<1> SUFFICES ASSUME TypeOK, ControlInv, DeviceIsOwn, [Next]_vars
             PROVE  DeviceIsOwn'
    OBVIOUS
<1>t. /\ pc \in [Session -> Point]
      /\ device \in Session \cup {None} /\ running \in BOOLEAN
      /\ device # None => pc[device] \in {"unpause"} \cup InLoop \cup Left
    BY DEF TypeOK, ControlInv
<1> USE <1>t DEF DeviceIsOwn, Goto, Note, audio, buffer, aux, InLoop, Left
<1>1. ASSUME NEW s \in Session, PlayWav(s) \/ PlayPcm(s) PROVE DeviceIsOwn'
    BY <1>1 DEF PlayWav, PlayPcm
<1>2. ASSUME NEW s \in Session, Begin(s) \/ InitFails(s) \/ LoadWav(s) \/ OpenFails(s)
      PROVE  DeviceIsOwn'
    BY <1>2 DEF Begin, InitFails, LoadWav, OpenFails
<1>3. ASSUME NEW s \in Session, OpenAudio(s) PROVE DeviceIsOwn'
    BY <1>3 DEF OpenAudio
<1>4. ASSUME NEW s \in Session, Unpause(s) PROVE DeviceIsOwn'
    BY <1>4 DEF Unpause
<1>5. ASSUME NEW s \in Session, LoopTest(s) \/ Look(s) \/ FreeWav(s) PROVE DeviceIsOwn'
    BY <1>5 DEF LoopTest, After, Look, FreeWav
<1>6. ASSUME NEW s \in Session, Read(s) \/ ReadEnd(s) \/ SetData(s) PROVE DeviceIsOwn'
    BY <1>6 DEF Read, ReadEnd, SetData
<1>7. ASSUME NEW s \in Session, CloseDevice(s) PROVE DeviceIsOwn'
    BY <1>7 DEF CloseDevice
<1>8. CASE StopWav \/ ToggleRecord
    BY <1>8 DEF StopWav, ToggleRecord
<1>9. CASE Callback
    BY <1>9 DEF Callback, Pull, Mix, AdvanceData, AdvanceLen
<1>10. CASE UNCHANGED vars
    BY <1>10 DEF vars
<1> QED
    BY <1>1, <1>2, <1>3, <1>4, <1>5, <1>6, <1>7, <1>8, <1>9, <1>10 DEF Next, Run

\* Who has opened the device has it until it closes it, and it runs while the session is
\* in its loop, unless this very session has been robbed of it by another's SDL_Quit, after
\* a failure or at its end, or by the SDL_CloseAudio of one that was robbed itself: the
\* safety core of SessionsEnd.
THEOREM DeviceHasOneSession == Spec => []DeviceIsOwn
<1>1. Init => DeviceIsOwn
    BY DEF Init, DeviceIsOwn, InLoop, Left
<1>2. TypeOK /\ PlaybackInv /\ DeviceIsOwn /\ [Next]_vars => DeviceIsOwn'
    BY StepDevice DEF PlaybackInv
<1> QED
    BY <1>1, <1>2, Playback, PTL DEF Spec

=============================================================================
